---- MODULE Spec2Model ----
(***************************************************************************)
(* x509-limbo: the testcase corpus (limbo/testcases/rfc5280.py and         *)
(* limbo/testcases/rfc5280/nc.py), the chain builder the testcases drive,  *)
(* the compiler (`limbo compile`) and the harness runner (`limbo harness`) *)
(* of limbo/_cli.py.                                                       *)
(*                                                                         *)
(* Specifications:                                                         *)
(*   SpecBuilder    one builder, driven call by call, either by one of the *)
(*                  corpus' testcase functions or by an arbitrary author;  *)
(*   Spec           _compile over the registry the corpus populates;       *)
(*   SpecAuthoring  _compile over a registry of arbitrary small testcase   *)
(*                  functions, defective ones included;                    *)
(*   SpecHarness    _harness over arbitrary documents and patterns.        *)
(***************************************************************************)
EXTENDS Integers, Sequences, FiniteSets, TLC

(***************************************************************************)
(* The corpus.  Each @testcase function is the sequence of calls it makes  *)
(* on its builder, in evaluation order: op is the method, ret the variable *)
(* a certificate-construction call is assigned to, args the positional     *)
(* arguments (certificate variables, peer names as kind:value, feature and *)
(* EKU member names), kw the names of the keyword arguments.               *)
(***************************************************************************)

\* src/limbo/testcases/rfc5280.py:17-36  def ee_empty_issuer(builder)
ee_empty_issuer ==
    << [op |-> "root_ca", ret |-> "root", args |-> <<>>, kw |-> {"issuer", "subject"}],
       [op |-> "leaf_cert", ret |-> "leaf", args |-> <<"root">>, kw |-> {}],
       [op |-> "server_validation", ret |-> "", args |-> <<>>, kw |-> {}],
       [op |-> "trusted_certs", ret |-> "", args |-> <<"root">>, kw |-> {}],
       [op |-> "peer_certificate", ret |-> "", args |-> <<"leaf">>, kw |-> {}],
       [op |-> "fails", ret |-> "", args |-> <<>>, kw |-> {}] >>

\* src/limbo/testcases/rfc5280.py:39-57  def ca_empty_subject(builder)
ca_empty_subject ==
    << [op |-> "root_ca", ret |-> "root", args |-> <<>>, kw |-> {"subject"}],
       [op |-> "leaf_cert", ret |-> "leaf", args |-> <<"root">>, kw |-> {}],
       [op |-> "server_validation", ret |-> "", args |-> <<>>, kw |-> {}],
       [op |-> "trusted_certs", ret |-> "", args |-> <<"root">>, kw |-> {}],
       [op |-> "peer_certificate", ret |-> "", args |-> <<"leaf">>, kw |-> {}],
       [op |-> "expected_peer_name", ret |-> "", args |-> <<"DNS:example.com">>, kw |-> {}],
       [op |-> "fails", ret |-> "", args |-> <<>>, kw |-> {}] >>

\* src/limbo/testcases/rfc5280.py:60-83  def unknown_critical_extension_ee(builder)
unknown_critical_extension_ee ==
    << [op |-> "root_ca", ret |-> "root", args |-> <<>>, kw |-> {}],
       [op |-> "leaf_cert", ret |-> "leaf", args |-> <<"root">>, kw |-> {"extra_extension"}],
       [op |-> "server_validation", ret |-> "", args |-> <<>>, kw |-> {}],
       [op |-> "trusted_certs", ret |-> "", args |-> <<"root">>, kw |-> {}],
       [op |-> "peer_certificate", ret |-> "", args |-> <<"leaf">>, kw |-> {}],
       [op |-> "fails", ret |-> "", args |-> <<>>, kw |-> {}] >>

\* src/limbo/testcases/rfc5280.py:86-109  def unknown_critical_extension_root(builder)
unknown_critical_extension_root ==
    << [op |-> "root_ca", ret |-> "root", args |-> <<>>, kw |-> {"extra_extension"}],
       [op |-> "leaf_cert", ret |-> "leaf", args |-> <<"root">>, kw |-> {}],
       [op |-> "server_validation", ret |-> "", args |-> <<>>, kw |-> {}],
       [op |-> "trusted_certs", ret |-> "", args |-> <<"root">>, kw |-> {}],
       [op |-> "peer_certificate", ret |-> "", args |-> <<"leaf">>, kw |-> {}],
       [op |-> "fails", ret |-> "", args |-> <<>>, kw |-> {}] >>

\* src/limbo/testcases/rfc5280.py:112-143  def unknown_critical_extension_intermediate(builder)
unknown_critical_extension_intermediate ==
    << [op |-> "root_ca", ret |-> "root", args |-> <<>>, kw |-> {}],
       [op |-> "intermediate_ca", ret |-> "intermediate", args |-> <<"root">>, kw |-> {"extra_extension", "pathlen"}],
       [op |-> "leaf_cert", ret |-> "leaf", args |-> <<"intermediate">>, kw |-> {}],
       [op |-> "server_validation", ret |-> "", args |-> <<>>, kw |-> {}],
       [op |-> "trusted_certs", ret |-> "", args |-> <<"root">>, kw |-> {}],
       [op |-> "untrusted_intermediates", ret |-> "", args |-> <<"intermediate">>, kw |-> {}],
       [op |-> "peer_certificate", ret |-> "", args |-> <<"leaf">>, kw |-> {}],
       [op |-> "fails", ret |-> "", args |-> <<>>, kw |-> {}] >>

\* src/limbo/testcases/rfc5280.py:146-172  def critical_aki(builder)
critical_aki ==
    << [op |-> "root_ca", ret |-> "root", args |-> <<>>, kw |-> {"aki", "key"}],
       [op |-> "leaf_cert", ret |-> "leaf", args |-> <<"root">>, kw |-> {}],
       [op |-> "server_validation", ret |-> "", args |-> <<>>, kw |-> {}],
       [op |-> "trusted_certs", ret |-> "", args |-> <<"root">>, kw |-> {}],
       [op |-> "peer_certificate", ret |-> "", args |-> <<"leaf">>, kw |-> {}],
       [op |-> "fails", ret |-> "", args |-> <<>>, kw |-> {}] >>

\* src/limbo/testcases/rfc5280.py:175-200  def self_signed_root_missing_aki(builder)
self_signed_root_missing_aki ==
    << [op |-> "root_ca", ret |-> "root", args |-> <<>>, kw |-> {"aki"}],
       [op |-> "leaf_cert", ret |-> "leaf", args |-> <<"root">>, kw |-> {}],
       [op |-> "server_validation", ret |-> "", args |-> <<>>, kw |-> {}],
       [op |-> "trusted_certs", ret |-> "", args |-> <<"root">>, kw |-> {}],
       [op |-> "peer_certificate", ret |-> "", args |-> <<"leaf">>, kw |-> {}],
       [op |-> "succeeds", ret |-> "", args |-> <<>>, kw |-> {}] >>

\* src/limbo/testcases/rfc5280.py:203-226  def cross_signed_root_missing_aki(builder)
cross_signed_root_missing_aki ==
    << [op |-> "root_ca", ret |-> "xsigner_root", args |-> <<>>, kw |-> {}],
       [op |-> "intermediate_ca", ret |-> "root", args |-> <<"xsigner_root">>, kw |-> {"aki", "pathlen"}],
       [op |-> "leaf_cert", ret |-> "leaf", args |-> <<"root">>, kw |-> {}],
       [op |-> "server_validation", ret |-> "", args |-> <<>>, kw |-> {}],
       [op |-> "trusted_certs", ret |-> "", args |-> <<"root">>, kw |-> {}],
       [op |-> "peer_certificate", ret |-> "", args |-> <<"leaf">>, kw |-> {}],
       [op |-> "fails", ret |-> "", args |-> <<>>, kw |-> {}] >>

\* src/limbo/testcases/rfc5280.py:229-252  def intermediate_missing_aki(builder)
intermediate_missing_aki ==
    << [op |-> "root_ca", ret |-> "root", args |-> <<>>, kw |-> {}],
       [op |-> "intermediate_ca", ret |-> "intermediate", args |-> <<"root">>, kw |-> {"aki", "pathlen"}],
       [op |-> "leaf_cert", ret |-> "leaf", args |-> <<"intermediate">>, kw |-> {}],
       [op |-> "server_validation", ret |-> "", args |-> <<>>, kw |-> {}],
       [op |-> "trusted_certs", ret |-> "", args |-> <<"root">>, kw |-> {}],
       [op |-> "untrusted_intermediates", ret |-> "", args |-> <<"intermediate">>, kw |-> {}],
       [op |-> "peer_certificate", ret |-> "", args |-> <<"leaf">>, kw |-> {}],
       [op |-> "fails", ret |-> "", args |-> <<>>, kw |-> {}] >>

\* leaf_missing_aki with the leaf passed as a trust anchor too
leaf_missing_aki_trusts_leaf ==
    << [op |-> "root_ca", ret |-> "root", args |-> <<>>, kw |-> {}],
       [op |-> "leaf_cert", ret |-> "leaf", args |-> <<"root">>, kw |-> {"aki"}],
       [op |-> "server_validation", ret |-> "", args |-> <<>>, kw |-> {}],
       [op |-> "trusted_certs", ret |-> "", args |-> <<"root", "leaf">>, kw |-> {}],
       [op |-> "peer_certificate", ret |-> "", args |-> <<"leaf">>, kw |-> {}],
       [op |-> "fails", ret |-> "", args |-> <<>>, kw |-> {}] >>

\* src/limbo/testcases/rfc5280.py:255-277  def leaf_missing_aki(builder)
leaf_missing_aki ==
    << [op |-> "root_ca", ret |-> "root", args |-> <<>>, kw |-> {}],
       [op |-> "leaf_cert", ret |-> "leaf", args |-> <<"root">>, kw |-> {"aki"}],
       [op |-> "server_validation", ret |-> "", args |-> <<>>, kw |-> {}],
       [op |-> "trusted_certs", ret |-> "", args |-> <<"root">>, kw |-> {}],
       [op |-> "peer_certificate", ret |-> "", args |-> <<"leaf">>, kw |-> {}],
       [op |-> "fails", ret |-> "", args |-> <<>>, kw |-> {}] >>

\* src/limbo/testcases/rfc5280.py:280-303  def critical_ski(builder)
critical_ski ==
    << [op |-> "root_ca", ret |-> "root", args |-> <<>>, kw |-> {"ski"}],
       [op |-> "leaf_cert", ret |-> "leaf", args |-> <<"root">>, kw |-> {}],
       [op |-> "server_validation", ret |-> "", args |-> <<>>, kw |-> {}],
       [op |-> "trusted_certs", ret |-> "", args |-> <<"root">>, kw |-> {}],
       [op |-> "peer_certificate", ret |-> "", args |-> <<"leaf">>, kw |-> {}],
       [op |-> "fails", ret |-> "", args |-> <<>>, kw |-> {}] >>

\* src/limbo/testcases/rfc5280.py:306-332  def missing_ski(builder)
missing_ski ==
    << [op |-> "root_ca", ret |-> "root", args |-> <<>>, kw |-> {"ski"}],
       [op |-> "leaf_cert", ret |-> "leaf", args |-> <<"root">>, kw |-> {}],
       [op |-> "server_validation", ret |-> "", args |-> <<>>, kw |-> {}],
       [op |-> "trusted_certs", ret |-> "", args |-> <<"root">>, kw |-> {}],
       [op |-> "peer_certificate", ret |-> "", args |-> <<"leaf">>, kw |-> {}],
       [op |-> "fails", ret |-> "", args |-> <<>>, kw |-> {}] >>

\* src/limbo/testcases/rfc5280.py:335-365  def multiple_chains_expired_intermediate(builder)
multiple_chains_expired_intermediate ==
    << [op |-> "root_ca", ret |-> "root", args |-> <<>>, kw |-> {}],
       [op |-> "root_ca", ret |-> "root_two", args |-> <<>>, kw |-> {"issuer"}],
       [op |-> "intermediate_ca", ret |-> "expired_intermediate", args |-> <<"root_two">>, kw |-> {"key", "not_after", "pathlen", "ski", "subject"}],
       [op |-> "leaf_cert", ret |-> "leaf", args |-> <<"root">>, kw |-> {}],
       [op |-> "server_validation", ret |-> "", args |-> <<>>, kw |-> {}],
       [op |-> "trusted_certs", ret |-> "", args |-> <<"root", "root_two">>, kw |-> {}],
       [op |-> "untrusted_intermediates", ret |-> "", args |-> <<"expired_intermediate">>, kw |-> {}],
       [op |-> "peer_certificate", ret |-> "", args |-> <<"leaf">>, kw |-> {}],
       [op |-> "succeeds", ret |-> "", args |-> <<>>, kw |-> {}] >>

\* chain_untrusted_root with the unrelated root built after the kind is selected
chain_untrusted_root_late_root ==
    << [op |-> "root_ca", ret |-> "root", args |-> <<>>, kw |-> {}],
       [op |-> "intermediate_ca", ret |-> "intermediate", args |-> <<"root">>, kw |-> {"pathlen"}],
       [op |-> "leaf_cert", ret |-> "leaf", args |-> <<"intermediate">>, kw |-> {}],
       [op |-> "server_validation", ret |-> "", args |-> <<>>, kw |-> {}],
       [op |-> "root_ca", ret |-> "unrelated_root", args |-> <<>>, kw |-> {"issuer"}],
       [op |-> "trusted_certs", ret |-> "", args |-> <<"unrelated_root">>, kw |-> {}],
       [op |-> "untrusted_intermediates", ret |-> "", args |-> <<"root", "intermediate">>, kw |-> {}],
       [op |-> "peer_certificate", ret |-> "", args |-> <<"leaf">>, kw |-> {}],
       [op |-> "fails", ret |-> "", args |-> <<>>, kw |-> {}] >>

\* src/limbo/testcases/rfc5280.py:368-391  def chain_untrusted_root(builder)
chain_untrusted_root ==
    << [op |-> "root_ca", ret |-> "root", args |-> <<>>, kw |-> {}],
       [op |-> "intermediate_ca", ret |-> "intermediate", args |-> <<"root">>, kw |-> {"pathlen"}],
       [op |-> "leaf_cert", ret |-> "leaf", args |-> <<"intermediate">>, kw |-> {}],
       [op |-> "root_ca", ret |-> "unrelated_root", args |-> <<>>, kw |-> {"issuer"}],
       [op |-> "server_validation", ret |-> "", args |-> <<>>, kw |-> {}],
       [op |-> "trusted_certs", ret |-> "", args |-> <<"unrelated_root">>, kw |-> {}],
       [op |-> "untrusted_intermediates", ret |-> "", args |-> <<"root", "intermediate">>, kw |-> {}],
       [op |-> "peer_certificate", ret |-> "", args |-> <<"leaf">>, kw |-> {}],
       [op |-> "fails", ret |-> "", args |-> <<>>, kw |-> {}] >>

\* src/limbo/testcases/rfc5280.py:394-421  def intermediate_ca_without_ca_bit(builder)
intermediate_ca_without_ca_bit ==
    << [op |-> "root_ca", ret |-> "root", args |-> <<>>, kw |-> {}],
       [op |-> "intermediate_ca", ret |-> "intermediate", args |-> <<"root">>, kw |-> {"basic_constraints"}],
       [op |-> "leaf_cert", ret |-> "leaf", args |-> <<"intermediate">>, kw |-> {}],
       [op |-> "server_validation", ret |-> "", args |-> <<>>, kw |-> {}],
       [op |-> "trusted_certs", ret |-> "", args |-> <<"root">>, kw |-> {}],
       [op |-> "untrusted_intermediates", ret |-> "", args |-> <<"intermediate">>, kw |-> {}],
       [op |-> "peer_certificate", ret |-> "", args |-> <<"leaf">>, kw |-> {}],
       [op |-> "fails", ret |-> "", args |-> <<>>, kw |-> {}] >>

\* src/limbo/testcases/rfc5280.py:424-448  def intermediate_ca_missing_basic_constraints(builder)
intermediate_ca_missing_basic_constraints ==
    << [op |-> "root_ca", ret |-> "root", args |-> <<>>, kw |-> {}],
       [op |-> "intermediate_ca", ret |-> "intermediate", args |-> <<"root">>, kw |-> {"basic_constraints"}],
       [op |-> "leaf_cert", ret |-> "leaf", args |-> <<"intermediate">>, kw |-> {}],
       [op |-> "server_validation", ret |-> "", args |-> <<>>, kw |-> {}],
       [op |-> "trusted_certs", ret |-> "", args |-> <<"root">>, kw |-> {}],
       [op |-> "peer_certificate", ret |-> "", args |-> <<"leaf">>, kw |-> {}],
       [op |-> "fails", ret |-> "", args |-> <<>>, kw |-> {}] >>

\* src/limbo/testcases/rfc5280.py:451-474  def root_missing_basic_constraints(builder)
root_missing_basic_constraints ==
    << [op |-> "root_ca", ret |-> "root", args |-> <<>>, kw |-> {"basic_constraints"}],
       [op |-> "leaf_cert", ret |-> "leaf", args |-> <<"root">>, kw |-> {}],
       [op |-> "server_validation", ret |-> "", args |-> <<>>, kw |-> {}],
       [op |-> "trusted_certs", ret |-> "", args |-> <<"root">>, kw |-> {}],
       [op |-> "peer_certificate", ret |-> "", args |-> <<"leaf">>, kw |-> {}],
       [op |-> "fails", ret |-> "", args |-> <<>>, kw |-> {}] >>

\* src/limbo/testcases/rfc5280.py:477-500  def root_non_critical_basic_constraints(builder)
root_non_critical_basic_constraints ==
    << [op |-> "root_ca", ret |-> "root", args |-> <<>>, kw |-> {"basic_constraints"}],
       [op |-> "leaf_cert", ret |-> "leaf", args |-> <<"root">>, kw |-> {}],
       [op |-> "server_validation", ret |-> "", args |-> <<>>, kw |-> {}],
       [op |-> "trusted_certs", ret |-> "", args |-> <<"root">>, kw |-> {}],
       [op |-> "peer_certificate", ret |-> "", args |-> <<"leaf">>, kw |-> {}],
       [op |-> "fails", ret |-> "", args |-> <<>>, kw |-> {}] >>

\* src/limbo/testcases/rfc5280.py:503-549  def root_inconsistent_ca_extensions(builder)
root_inconsistent_ca_extensions ==
    << [op |-> "root_ca", ret |-> "root", args |-> <<>>, kw |-> {"key_usage"}],
       [op |-> "leaf_cert", ret |-> "leaf", args |-> <<"root">>, kw |-> {}],
       [op |-> "server_validation", ret |-> "", args |-> <<>>, kw |-> {}],
       [op |-> "trusted_certs", ret |-> "", args |-> <<"root">>, kw |-> {}],
       [op |-> "peer_certificate", ret |-> "", args |-> <<"leaf">>, kw |-> {}],
       [op |-> "fails", ret |-> "", args |-> <<>>, kw |-> {}] >>

\* src/limbo/testcases/rfc5280.py:552-592  def ica_ku_keycertsign(builder)
ica_ku_keycertsign ==
    << [op |-> "root_ca", ret |-> "root", args |-> <<>>, kw |-> {}],
       [op |-> "intermediate_ca", ret |-> "intermediate", args |-> <<"root">>, kw |-> {"key_usage", "pathlen"}],
       [op |-> "leaf_cert", ret |-> "leaf", args |-> <<"intermediate">>, kw |-> {}],
       [op |-> "server_validation", ret |-> "", args |-> <<>>, kw |-> {}],
       [op |-> "trusted_certs", ret |-> "", args |-> <<"root">>, kw |-> {}],
       [op |-> "peer_certificate", ret |-> "", args |-> <<"leaf">>, kw |-> {}],
       [op |-> "fails", ret |-> "", args |-> <<>>, kw |-> {}] >>

\* src/limbo/testcases/rfc5280.py:595-636  def leaf_ku_keycertsign(builder)
leaf_ku_keycertsign ==
    << [op |-> "root_ca", ret |-> "root", args |-> <<>>, kw |-> {}],
       [op |-> "leaf_cert", ret |-> "leaf", args |-> <<"root">>, kw |-> {"basic_constraints", "key_usage"}],
       [op |-> "server_validation", ret |-> "", args |-> <<>>, kw |-> {}],
       [op |-> "trusted_certs", ret |-> "", args |-> <<"root">>, kw |-> {}],
       [op |-> "peer_certificate", ret |-> "", args |-> <<"leaf">>, kw |-> {}],
       [op |-> "fails", ret |-> "", args |-> <<>>, kw |-> {}] >>

\* src/limbo/testcases/rfc5280.py:639-666  def ca_nameconstraints_permitted_dns_mismatch(builder)
ca_nameconstraints_permitted_dns_mismatch ==
    << [op |-> "root_ca", ret |-> "root", args |-> <<>>, kw |-> {"name_constraints"}],
       [op |-> "leaf_cert", ret |-> "leaf", args |-> <<"root">>, kw |-> {"san"}],
       [op |-> "server_validation", ret |-> "", args |-> <<>>, kw |-> {}],
       [op |-> "trusted_certs", ret |-> "", args |-> <<"root">>, kw |-> {}],
       [op |-> "peer_certificate", ret |-> "", args |-> <<"leaf">>, kw |-> {}],
       [op |-> "fails", ret |-> "", args |-> <<>>, kw |-> {}] >>

\* src/limbo/testcases/rfc5280.py:669-696  def ca_nameconstraints_excluded_dns_match(builder)
ca_nameconstraints_excluded_dns_match ==
    << [op |-> "root_ca", ret |-> "root", args |-> <<>>, kw |-> {"name_constraints"}],
       [op |-> "leaf_cert", ret |-> "leaf", args |-> <<"root">>, kw |-> {"san"}],
       [op |-> "server_validation", ret |-> "", args |-> <<>>, kw |-> {}],
       [op |-> "trusted_certs", ret |-> "", args |-> <<"root">>, kw |-> {}],
       [op |-> "peer_certificate", ret |-> "", args |-> <<"leaf">>, kw |-> {}],
       [op |-> "expected_peer_name", ret |-> "", args |-> <<"DNS:example.com">>, kw |-> {}],
       [op |-> "fails", ret |-> "", args |-> <<>>, kw |-> {}] >>

\* src/limbo/testcases/rfc5280.py:699-726  def ca_nameconstraints_permitted_dns_match(builder)
ca_nameconstraints_permitted_dns_match ==
    << [op |-> "root_ca", ret |-> "root", args |-> <<>>, kw |-> {"name_constraints"}],
       [op |-> "leaf_cert", ret |-> "leaf", args |-> <<"root">>, kw |-> {"san"}],
       [op |-> "server_validation", ret |-> "", args |-> <<>>, kw |-> {}],
       [op |-> "trusted_certs", ret |-> "", args |-> <<"root">>, kw |-> {}],
       [op |-> "peer_certificate", ret |-> "", args |-> <<"leaf">>, kw |-> {}],
       [op |-> "expected_peer_name", ret |-> "", args |-> <<"DNS:example.com">>, kw |-> {}],
       [op |-> "succeeds", ret |-> "", args |-> <<>>, kw |-> {}] >>

\* src/limbo/testcases/rfc5280.py:729-766  def ca_nameconstraints_permitted_dns_match_more(builder)
ca_nameconstraints_permitted_dns_match_more ==
    << [op |-> "root_ca", ret |-> "root", args |-> <<>>, kw |-> {"name_constraints"}],
       [op |-> "leaf_cert", ret |-> "leaf", args |-> <<"root">>, kw |-> {"san"}],
       [op |-> "server_validation", ret |-> "", args |-> <<>>, kw |-> {}],
       [op |-> "trusted_certs", ret |-> "", args |-> <<"root">>, kw |-> {}],
       [op |-> "peer_certificate", ret |-> "", args |-> <<"leaf">>, kw |-> {}],
       [op |-> "expected_peer_name", ret |-> "", args |-> <<"DNS:foo.bar.example.com">>, kw |-> {}],
       [op |-> "succeeds", ret |-> "", args |-> <<>>, kw |-> {}] >>

\* src/limbo/testcases/rfc5280.py:769-803  def ca_nameconstraints_excluded_dns_match_second(builder)
ca_nameconstraints_excluded_dns_match_second ==
    << [op |-> "root_ca", ret |-> "root", args |-> <<>>, kw |-> {"name_constraints"}],
       [op |-> "leaf_cert", ret |-> "leaf", args |-> <<"root">>, kw |-> {"san"}],
       [op |-> "server_validation", ret |-> "", args |-> <<>>, kw |-> {}],
       [op |-> "trusted_certs", ret |-> "", args |-> <<"root">>, kw |-> {}],
       [op |-> "peer_certificate", ret |-> "", args |-> <<"leaf">>, kw |-> {}],
       [op |-> "expected_peer_name", ret |-> "", args |-> <<"DNS:example.com">>, kw |-> {}],
       [op |-> "fails", ret |-> "", args |-> <<>>, kw |-> {}] >>

\* src/limbo/testcases/rfc5280.py:806-838  def ca_nameconstraints_permitted_ip_mismatch(builder)
ca_nameconstraints_permitted_ip_mismatch ==
    << [op |-> "root_ca", ret |-> "root", args |-> <<>>, kw |-> {"name_constraints"}],
       [op |-> "leaf_cert", ret |-> "leaf", args |-> <<"root">>, kw |-> {"san"}],
       [op |-> "server_validation", ret |-> "", args |-> <<>>, kw |-> {}],
       [op |-> "trusted_certs", ret |-> "", args |-> <<"root">>, kw |-> {}],
       [op |-> "peer_certificate", ret |-> "", args |-> <<"leaf">>, kw |-> {}],
       [op |-> "expected_peer_name", ret |-> "", args |-> <<"IP:192.0.3.1">>, kw |-> {}],
       [op |-> "fails", ret |-> "", args |-> <<>>, kw |-> {}] >>

\* src/limbo/testcases/rfc5280.py:841-872  def ca_nameconstraints_excluded_ip_match(builder)
ca_nameconstraints_excluded_ip_match ==
    << [op |-> "root_ca", ret |-> "root", args |-> <<>>, kw |-> {"name_constraints"}],
       [op |-> "leaf_cert", ret |-> "leaf", args |-> <<"root">>, kw |-> {"san"}],
       [op |-> "server_validation", ret |-> "", args |-> <<>>, kw |-> {}],
       [op |-> "trusted_certs", ret |-> "", args |-> <<"root">>, kw |-> {}],
       [op |-> "peer_certificate", ret |-> "", args |-> <<"leaf">>, kw |-> {}],
       [op |-> "expected_peer_name", ret |-> "", args |-> <<"IP:192.0.2.1">>, kw |-> {}],
       [op |-> "fails", ret |-> "", args |-> <<>>, kw |-> {}] >>

\* src/limbo/testcases/rfc5280.py:875-907  def ca_nameconstraints_permitted_ip_match(builder)
ca_nameconstraints_permitted_ip_match ==
    << [op |-> "root_ca", ret |-> "root", args |-> <<>>, kw |-> {"name_constraints"}],
       [op |-> "leaf_cert", ret |-> "leaf", args |-> <<"root">>, kw |-> {"san"}],
       [op |-> "server_validation", ret |-> "", args |-> <<>>, kw |-> {}],
       [op |-> "trusted_certs", ret |-> "", args |-> <<"root">>, kw |-> {}],
       [op |-> "peer_certificate", ret |-> "", args |-> <<"leaf">>, kw |-> {}],
       [op |-> "expected_peer_name", ret |-> "", args |-> <<"IP:192.0.2.1">>, kw |-> {}],
       [op |-> "succeeds", ret |-> "", args |-> <<>>, kw |-> {}] >>

\* src/limbo/testcases/rfc5280.py:910-943  def ca_nameconstraints_permitted_dn_mismatch(builder)
ca_nameconstraints_permitted_dn_mismatch ==
    << [op |-> "root_ca", ret |-> "root", args |-> <<>>, kw |-> {"name_constraints"}],
       [op |-> "leaf_cert", ret |-> "leaf", args |-> <<"root">>, kw |-> {"san", "subject"}],
       [op |-> "server_validation", ret |-> "", args |-> <<>>, kw |-> {}],
       [op |-> "features", ret |-> "", args |-> <<"name_constraint_dn">>, kw |-> {}],
       [op |-> "trusted_certs", ret |-> "", args |-> <<"root">>, kw |-> {}],
       [op |-> "peer_certificate", ret |-> "", args |-> <<"leaf">>, kw |-> {}],
       [op |-> "fails", ret |-> "", args |-> <<>>, kw |-> {}] >>

\* src/limbo/testcases/rfc5280.py:946-979  def ca_nameconstraints_excluded_dn_match(builder)
ca_nameconstraints_excluded_dn_match ==
    << [op |-> "root_ca", ret |-> "root", args |-> <<>>, kw |-> {"name_constraints"}],
       [op |-> "leaf_cert", ret |-> "leaf", args |-> <<"root">>, kw |-> {"san", "subject"}],
       [op |-> "server_validation", ret |-> "", args |-> <<>>, kw |-> {}],
       [op |-> "features", ret |-> "", args |-> <<"name_constraint_dn">>, kw |-> {}],
       [op |-> "trusted_certs", ret |-> "", args |-> <<"root">>, kw |-> {}],
       [op |-> "peer_certificate", ret |-> "", args |-> <<"leaf">>, kw |-> {}],
       [op |-> "fails", ret |-> "", args |-> <<>>, kw |-> {}] >>

\* src/limbo/testcases/rfc5280.py:982-1015  def ca_nameconstraints_permitted_dn_match(builder)
ca_nameconstraints_permitted_dn_match ==
    << [op |-> "root_ca", ret |-> "root", args |-> <<>>, kw |-> {"name_constraints"}],
       [op |-> "leaf_cert", ret |-> "leaf", args |-> <<"root">>, kw |-> {"san", "subject"}],
       [op |-> "server_validation", ret |-> "", args |-> <<>>, kw |-> {}],
       [op |-> "features", ret |-> "", args |-> <<"name_constraint_dn">>, kw |-> {}],
       [op |-> "trusted_certs", ret |-> "", args |-> <<"root">>, kw |-> {}],
       [op |-> "peer_certificate", ret |-> "", args |-> <<"leaf">>, kw |-> {}],
       [op |-> "succeeds", ret |-> "", args |-> <<>>, kw |-> {}] >>

\* src/limbo/testcases/rfc5280.py:1018-1059  def ca_nameconstraints_permitted_dn_match_subject_san_mismatch(builder)
ca_nameconstraints_permitted_dn_match_subject_san_mismatch ==
    << [op |-> "root_ca", ret |-> "root", args |-> <<>>, kw |-> {"name_constraints"}],
       [op |-> "leaf_cert", ret |-> "leaf", args |-> <<"root">>, kw |-> {"san", "subject"}],
       [op |-> "server_validation", ret |-> "", args |-> <<>>, kw |-> {}],
       [op |-> "features", ret |-> "", args |-> <<"name_constraint_dn">>, kw |-> {}],
       [op |-> "trusted_certs", ret |-> "", args |-> <<"root">>, kw |-> {}],
       [op |-> "peer_certificate", ret |-> "", args |-> <<"leaf">>, kw |-> {}],
       [op |-> "fails", ret |-> "", args |-> <<>>, kw |-> {}] >>

\* src/limbo/testcases/rfc5280.py:1062-1103  def ca_nameconstraints_excluded_dn_match_sub_mismatch(builder)
ca_nameconstraints_excluded_dn_match_sub_mismatch ==
    << [op |-> "root_ca", ret |-> "root", args |-> <<>>, kw |-> {"name_constraints"}],
       [op |-> "leaf_cert", ret |-> "leaf", args |-> <<"root">>, kw |-> {"san", "subject"}],
       [op |-> "server_validation", ret |-> "", args |-> <<>>, kw |-> {}],
       [op |-> "features", ret |-> "", args |-> <<"name_constraint_dn">>, kw |-> {}],
       [op |-> "trusted_certs", ret |-> "", args |-> <<"root">>, kw |-> {}],
       [op |-> "peer_certificate", ret |-> "", args |-> <<"leaf">>, kw |-> {}],
       [op |-> "fails", ret |-> "", args |-> <<>>, kw |-> {}] >>

\* src/limbo/testcases/rfc5280.py:1108-1151  def ca_nameconstraints_permitted_self_issued(builder)
ca_nameconstraints_permitted_self_issued ==
    << [op |-> "root_ca", ret |-> "root", args |-> <<>>, kw |-> {"issuer", "name_constraints", "san", "subject"}],
       [op |-> "intermediate_ca", ret |-> "intermediate", args |-> <<"root">>, kw |-> {"issuer", "san", "subject"}],
       [op |-> "leaf_cert", ret |-> "leaf", args |-> <<"intermediate">>, kw |-> {}],
       [op |-> "server_validation", ret |-> "", args |-> <<>>, kw |-> {}],
       [op |-> "trusted_certs", ret |-> "", args |-> <<"root">>, kw |-> {}],
       [op |-> "untrusted_intermediates", ret |-> "", args |-> <<"intermediate">>, kw |-> {}],
       [op |-> "peer_certificate", ret |-> "", args |-> <<"leaf">>, kw |-> {}],
       [op |-> "succeeds", ret |-> "", args |-> <<>>, kw |-> {}] >>

\* src/limbo/testcases/rfc5280.py:1154-1198  def ca_nameconstraints_excluded_self_issued_leaf(builder)
ca_nameconstraints_excluded_self_issued_leaf ==
    << [op |-> "root_ca", ret |-> "root", args |-> <<>>, kw |-> {"name_constraints"}],
       [op |-> "intermediate_ca", ret |-> "intermediate", args |-> <<"root">>, kw |-> {"san", "subject"}],
       [op |-> "leaf_cert", ret |-> "leaf", args |-> <<"intermediate">>, kw |-> {"issuer", "san", "subject"}],
       [op |-> "server_validation", ret |-> "", args |-> <<>>, kw |-> {}],
       [op |-> "trusted_certs", ret |-> "", args |-> <<"root">>, kw |-> {}],
       [op |-> "untrusted_intermediates", ret |-> "", args |-> <<"intermediate">>, kw |-> {}],
       [op |-> "peer_certificate", ret |-> "", args |-> <<"leaf">>, kw |-> {}],
       [op |-> "expected_peer_name", ret |-> "", args |-> <<"DNS:not-example.com">>, kw |-> {}],
       [op |-> "fails", ret |-> "", args |-> <<>>, kw |-> {}] >>

\* src/limbo/testcases/rfc5280.py:1201-1233  def ca_nameconstraints_excluded_match_permitted_and_excluded(builder)
ca_nameconstraints_excluded_match_permitted_and_excluded ==
    << [op |-> "root_ca", ret |-> "root", args |-> <<>>, kw |-> {"name_constraints"}],
       [op |-> "leaf_cert", ret |-> "leaf", args |-> <<"root">>, kw |-> {"san"}],
       [op |-> "server_validation", ret |-> "", args |-> <<>>, kw |-> {}],
       [op |-> "trusted_certs", ret |-> "", args |-> <<"root">>, kw |-> {}],
       [op |-> "peer_certificate", ret |-> "", args |-> <<"leaf">>, kw |-> {}],
       [op |-> "expected_peer_name", ret |-> "", args |-> <<"DNS:example.com">>, kw |-> {}],
       [op |-> "fails", ret |-> "", args |-> <<>>, kw |-> {}] >>

\* src/limbo/testcases/rfc5280.py:1236-1264  def ca_nameconstraints_permitted_different_constraint_type(builder)
ca_nameconstraints_permitted_different_constraint_type ==
    << [op |-> "root_ca", ret |-> "root", args |-> <<>>, kw |-> {"name_constraints"}],
       [op |-> "leaf_cert", ret |-> "leaf", args |-> <<"root">>, kw |-> {"san"}],
       [op |-> "server_validation", ret |-> "", args |-> <<>>, kw |-> {}],
       [op |-> "trusted_certs", ret |-> "", args |-> <<"root">>, kw |-> {}],
       [op |-> "peer_certificate", ret |-> "", args |-> <<"leaf">>, kw |-> {}],
       [op |-> "expected_peer_name", ret |-> "", args |-> <<"DNS:example.com">>, kw |-> {}],
       [op |-> "succeeds", ret |-> "", args |-> <<>>, kw |-> {}] >>

\* src/limbo/testcases/rfc5280.py:1267-1295  def ca_nameconstraints_excluded_different_constraint_type(builder)
ca_nameconstraints_excluded_different_constraint_type ==
    << [op |-> "root_ca", ret |-> "root", args |-> <<>>, kw |-> {"name_constraints"}],
       [op |-> "leaf_cert", ret |-> "leaf", args |-> <<"root">>, kw |-> {"san"}],
       [op |-> "server_validation", ret |-> "", args |-> <<>>, kw |-> {}],
       [op |-> "trusted_certs", ret |-> "", args |-> <<"root">>, kw |-> {}],
       [op |-> "peer_certificate", ret |-> "", args |-> <<"leaf">>, kw |-> {}],
       [op |-> "expected_peer_name", ret |-> "", args |-> <<"DNS:example.com">>, kw |-> {}],
       [op |-> "succeeds", ret |-> "", args |-> <<>>, kw |-> {}] >>

\* src/limbo/testcases/rfc5280.py:1298-1326  def ca_nameconstraints_invalid_dnsname(builder)
ca_nameconstraints_invalid_dnsname ==
    << [op |-> "root_ca", ret |-> "root", args |-> <<>>, kw |-> {"name_constraints"}],
       [op |-> "leaf_cert", ret |-> "leaf", args |-> <<"root">>, kw |-> {"san"}],
       [op |-> "server_validation", ret |-> "", args |-> <<>>, kw |-> {}],
       [op |-> "trusted_certs", ret |-> "", args |-> <<"root">>, kw |-> {}],
       [op |-> "peer_certificate", ret |-> "", args |-> <<"leaf">>, kw |-> {}],
       [op |-> "expected_peer_name", ret |-> "", args |-> <<"DNS:foo.example.com">>, kw |-> {}],
       [op |-> "fails", ret |-> "", args |-> <<>>, kw |-> {}] >>

\* src/limbo/testcases/rfc5280.py:1329-1359  def ca_nameconstraints_invalid_ipaddress(builder)
ca_nameconstraints_invalid_ipaddress ==
    << [op |-> "root_ca", ret |-> "root", args |-> <<>>, kw |-> {"name_constraints"}],
       [op |-> "leaf_cert", ret |-> "leaf", args |-> <<"root">>, kw |-> {"san"}],
       [op |-> "server_validation", ret |-> "", args |-> <<>>, kw |-> {}],
       [op |-> "trusted_certs", ret |-> "", args |-> <<"root">>, kw |-> {}],
       [op |-> "peer_certificate", ret |-> "", args |-> <<"leaf">>, kw |-> {}],
       [op |-> "expected_peer_name", ret |-> "", args |-> <<"IP:127.0.0.1">>, kw |-> {}],
       [op |-> "fails", ret |-> "", args |-> <<>>, kw |-> {}] >>

\* src/limbo/testcases/rfc5280.py:1362-1384  def ee_aia(builder)
ee_aia ==
    << [op |-> "root_ca", ret |-> "root", args |-> <<>>, kw |-> {}],
       [op |-> "leaf_cert", ret |-> "leaf", args |-> <<"root">>, kw |-> {"extra_extension"}],
       [op |-> "server_validation", ret |-> "", args |-> <<>>, kw |-> {}],
       [op |-> "trusted_certs", ret |-> "", args |-> <<"root">>, kw |-> {}],
       [op |-> "peer_certificate", ret |-> "", args |-> <<"leaf">>, kw |-> {}],
       [op |-> "expected_peer_name", ret |-> "", args |-> <<"DNS:example.com">>, kw |-> {}],
       [op |-> "succeeds", ret |-> "", args |-> <<>>, kw |-> {}] >>

\* src/limbo/testcases/rfc5280.py:1387-1412  def ee_critical_aia_invalid(builder)
ee_critical_aia_invalid ==
    << [op |-> "root_ca", ret |-> "root", args |-> <<>>, kw |-> {}],
       [op |-> "leaf_cert", ret |-> "leaf", args |-> <<"root">>, kw |-> {"extra_extension"}],
       [op |-> "server_validation", ret |-> "", args |-> <<>>, kw |-> {}],
       [op |-> "trusted_certs", ret |-> "", args |-> <<"root">>, kw |-> {}],
       [op |-> "peer_certificate", ret |-> "", args |-> <<"leaf">>, kw |-> {}],
       [op |-> "expected_peer_name", ret |-> "", args |-> <<"DNS:example.com">>, kw |-> {}],
       [op |-> "fails", ret |-> "", args |-> <<>>, kw |-> {}] >>

\* src/limbo/testcases/rfc5280.py:1415-1438  def san_noncritical_with_empty_subject(builder)
san_noncritical_with_empty_subject ==
    << [op |-> "root_ca", ret |-> "root", args |-> <<>>, kw |-> {}],
       [op |-> "leaf_cert", ret |-> "leaf", args |-> <<"root">>, kw |-> {"san", "subject"}],
       [op |-> "server_validation", ret |-> "", args |-> <<>>, kw |-> {}],
       [op |-> "trusted_certs", ret |-> "", args |-> <<"root">>, kw |-> {}],
       [op |-> "peer_certificate", ret |-> "", args |-> <<"leaf">>, kw |-> {}],
       [op |-> "expected_peer_name", ret |-> "", args |-> <<"DNS:example.com">>, kw |-> {}],
       [op |-> "fails", ret |-> "", args |-> <<>>, kw |-> {}] >>

\* src/limbo/testcases/rfc5280.py:1441-1458  def serial_number_too_long(builder)
serial_number_too_long ==
    << [op |-> "root_ca", ret |-> "root", args |-> <<>>, kw |-> {}],
       [op |-> "leaf_cert", ret |-> "leaf", args |-> <<"root">>, kw |-> {"serial"}],
       [op |-> "server_validation", ret |-> "", args |-> <<>>, kw |-> {}],
       [op |-> "features", ret |-> "", args |-> <<"pedantic_serial_number">>, kw |-> {}],
       [op |-> "trusted_certs", ret |-> "", args |-> <<"root">>, kw |-> {}],
       [op |-> "peer_certificate", ret |-> "", args |-> <<"leaf">>, kw |-> {}],
       [op |-> "expected_peer_name", ret |-> "", args |-> <<"DNS:example.com">>, kw |-> {}],
       [op |-> "fails", ret |-> "", args |-> <<>>, kw |-> {}] >>

\* src/limbo/testcases/rfc5280.py:1461-1476  def serial_number_zero(builder)
serial_number_zero ==
    << [op |-> "root_ca", ret |-> "root", args |-> <<>>, kw |-> {}],
       [op |-> "leaf_cert", ret |-> "leaf", args |-> <<"root">>, kw |-> {"serial"}],
       [op |-> "server_validation", ret |-> "", args |-> <<>>, kw |-> {}],
       [op |-> "features", ret |-> "", args |-> <<"pedantic_serial_number">>, kw |-> {}],
       [op |-> "trusted_certs", ret |-> "", args |-> <<"root">>, kw |-> {}],
       [op |-> "peer_certificate", ret |-> "", args |-> <<"leaf">>, kw |-> {}],
       [op |-> "expected_peer_name", ret |-> "", args |-> <<"DNS:example.com">>, kw |-> {}],
       [op |-> "fails", ret |-> "", args |-> <<>>, kw |-> {}] >>

\* src/limbo/testcases/rfc5280.py:1479-1514  def duplicate_extensions(builder)
duplicate_extensions ==
    << [op |-> "root_ca", ret |-> "root", args |-> <<>>, kw |-> {}],
       [op |-> "leaf_cert", ret |-> "leaf", args |-> <<"root">>, kw |-> {"extra_unchecked_extensions", "san"}],
       [op |-> "server_validation", ret |-> "", args |-> <<>>, kw |-> {}],
       [op |-> "trusted_certs", ret |-> "", args |-> <<"root">>, kw |-> {}],
       [op |-> "peer_certificate", ret |-> "", args |-> <<"leaf">>, kw |-> {}],
       [op |-> "expected_peer_name", ret |-> "", args |-> <<"DNS:example.com">>, kw |-> {}],
       [op |-> "fails", ret |-> "", args |-> <<>>, kw |-> {}] >>

\* src/limbo/testcases/rfc5280.py:1517-1539  def no_keyusage(builder)
no_keyusage ==
    << [op |-> "root_ca", ret |-> "root", args |-> <<>>, kw |-> {}],
       [op |-> "leaf_cert", ret |-> "leaf", args |-> <<"root">>, kw |-> {"key_usage"}],
       [op |-> "server_validation", ret |-> "", args |-> <<>>, kw |-> {}],
       [op |-> "trusted_certs", ret |-> "", args |-> <<"root">>, kw |-> {}],
       [op |-> "peer_certificate", ret |-> "", args |-> <<"leaf">>, kw |-> {}],
       [op |-> "expected_peer_name", ret |-> "", args |-> <<"DNS:example.com">>, kw |-> {}],
       [op |-> "succeeds", ret |-> "", args |-> <<>>, kw |-> {}] >>

\* src/limbo/testcases/rfc5280.py:1542-1563  def no_basicconstraints(builder)
no_basicconstraints ==
    << [op |-> "root_ca", ret |-> "root", args |-> <<>>, kw |-> {}],
       [op |-> "leaf_cert", ret |-> "leaf", args |-> <<"root">>, kw |-> {"basic_constraints"}],
       [op |-> "server_validation", ret |-> "", args |-> <<>>, kw |-> {}],
       [op |-> "trusted_certs", ret |-> "", args |-> <<"root">>, kw |-> {}],
       [op |-> "peer_certificate", ret |-> "", args |-> <<"leaf">>, kw |-> {}],
       [op |-> "expected_peer_name", ret |-> "", args |-> <<"DNS:example.com">>, kw |-> {}],
       [op |-> "succeeds", ret |-> "", args |-> <<>>, kw |-> {}] >>

\* src/limbo/testcases/rfc5280.py:1566-1596  def wrong_eku(builder)
wrong_eku ==
    << [op |-> "root_ca", ret |-> "root", args |-> <<>>, kw |-> {}],
       [op |-> "leaf_cert", ret |-> "leaf", args |-> <<"root">>, kw |-> {"eku"}],
       [op |-> "server_validation", ret |-> "", args |-> <<>>, kw |-> {}],
       [op |-> "trusted_certs", ret |-> "", args |-> <<"root">>, kw |-> {}],
       [op |-> "extended_key_usage", ret |-> "", args |-> <<"server_auth">>, kw |-> {}],
       [op |-> "peer_certificate", ret |-> "", args |-> <<"leaf">>, kw |-> {}],
       [op |-> "expected_peer_name", ret |-> "", args |-> <<"DNS:example.com">>, kw |-> {}],
       [op |-> "fails", ret |-> "", args |-> <<>>, kw |-> {}] >>

\* src/limbo/testcases/rfc5280.py:1599-1623  def mismatching_signature_algorithm(builder)
mismatching_signature_algorithm ==
    << [op |-> "server_validation", ret |-> "", args |-> <<>>, kw |-> {}],
       [op |-> "validation_time", ret |-> "", args |-> <<"2023-07-10T00:00:00Z">>, kw |-> {}],
       [op |-> "trusted_certs", ret |-> "", args |-> <<"root">>, kw |-> {}],
       [op |-> "peer_certificate", ret |-> "", args |-> <<"leaf">>, kw |-> {}],
       [op |-> "untrusted_intermediates", ret |-> "", args |-> <<"*chain">>, kw |-> {}],
       [op |-> "expected_peer_name", ret |-> "", args |-> <<"DNS:cryptography.io">>, kw |-> {}],
       [op |-> "fails", ret |-> "", args |-> <<>>, kw |-> {}] >>

\* src/limbo/testcases/rfc5280.py:1626-1646  def malformed_subject_alternative_name(builder)
malformed_subject_alternative_name ==
    << [op |-> "root_ca", ret |-> "root", args |-> <<>>, kw |-> {}],
       [op |-> "leaf_cert", ret |-> "leaf", args |-> <<"root">>, kw |-> {"extra_extension", "san"}],
       [op |-> "server_validation", ret |-> "", args |-> <<>>, kw |-> {}],
       [op |-> "trusted_certs", ret |-> "", args |-> <<"root">>, kw |-> {}],
       [op |-> "peer_certificate", ret |-> "", args |-> <<"leaf">>, kw |-> {}],
       [op |-> "fails", ret |-> "", args |-> <<>>, kw |-> {}] >>

\* src/limbo/testcases/rfc5280/nc.py:15-42  def permitted_dns_mismatch(builder)
permitted_dns_mismatch ==
    << [op |-> "root_ca", ret |-> "root", args |-> <<>>, kw |-> {"name_constraints"}],
       [op |-> "leaf_cert", ret |-> "leaf", args |-> <<"root">>, kw |-> {"san"}],
       [op |-> "server_validation", ret |-> "", args |-> <<>>, kw |-> {}],
       [op |-> "trusted_certs", ret |-> "", args |-> <<"root">>, kw |-> {}],
       [op |-> "peer_certificate", ret |-> "", args |-> <<"leaf">>, kw |-> {}],
       [op |-> "fails", ret |-> "", args |-> <<>>, kw |-> {}] >>

\* src/limbo/testcases/rfc5280/nc.py:45-74  def excluded_dns_match(builder)
excluded_dns_match ==
    << [op |-> "root_ca", ret |-> "root", args |-> <<>>, kw |-> {}],
       [op |-> "intermediate_ca", ret |-> "ica", args |-> <<"root">>, kw |-> {"name_constraints"}],
       [op |-> "leaf_cert", ret |-> "leaf", args |-> <<"ica">>, kw |-> {"san"}],
       [op |-> "server_validation", ret |-> "", args |-> <<>>, kw |-> {}],
       [op |-> "trusted_certs", ret |-> "", args |-> <<"root">>, kw |-> {}],
       [op |-> "untrusted_intermediates", ret |-> "", args |-> <<"ica">>, kw |-> {}],
       [op |-> "peer_certificate", ret |-> "", args |-> <<"leaf">>, kw |-> {}],
       [op |-> "expected_peer_name", ret |-> "", args |-> <<"DNS:example.com">>, kw |-> {}],
       [op |-> "fails", ret |-> "", args |-> <<>>, kw |-> {}] >>

\* permitted_dns_match ending with fails()
permitted_dns_match_fails ==
    << [op |-> "root_ca", ret |-> "root", args |-> <<>>, kw |-> {"name_constraints"}],
       [op |-> "leaf_cert", ret |-> "leaf", args |-> <<"root">>, kw |-> {"san"}],
       [op |-> "server_validation", ret |-> "", args |-> <<>>, kw |-> {}],
       [op |-> "trusted_certs", ret |-> "", args |-> <<"root">>, kw |-> {}],
       [op |-> "peer_certificate", ret |-> "", args |-> <<"leaf">>, kw |-> {}],
       [op |-> "expected_peer_name", ret |-> "", args |-> <<"DNS:example.com">>, kw |-> {}],
       [op |-> "fails", ret |-> "", args |-> <<>>, kw |-> {}] >>

\* src/limbo/testcases/rfc5280/nc.py:77-104  def permitted_dns_match(builder)
permitted_dns_match ==
    << [op |-> "root_ca", ret |-> "root", args |-> <<>>, kw |-> {"name_constraints"}],
       [op |-> "leaf_cert", ret |-> "leaf", args |-> <<"root">>, kw |-> {"san"}],
       [op |-> "server_validation", ret |-> "", args |-> <<>>, kw |-> {}],
       [op |-> "trusted_certs", ret |-> "", args |-> <<"root">>, kw |-> {}],
       [op |-> "peer_certificate", ret |-> "", args |-> <<"leaf">>, kw |-> {}],
       [op |-> "expected_peer_name", ret |-> "", args |-> <<"DNS:example.com">>, kw |-> {}],
       [op |-> "succeeds", ret |-> "", args |-> <<>>, kw |-> {}] >>

\* src/limbo/testcases/rfc5280/nc.py:107-141  def permitted_dns_match_noncritical(builder)
permitted_dns_match_noncritical ==
    << [op |-> "root_ca", ret |-> "root", args |-> <<>>, kw |-> {"name_constraints"}],
       [op |-> "leaf_cert", ret |-> "leaf", args |-> <<"root">>, kw |-> {"san"}],
       [op |-> "server_validation", ret |-> "", args |-> <<>>, kw |-> {}],
       [op |-> "conflicts_with", ret |-> "", args |-> <<"webpki::nc::permitted-dns-match-noncritical">>, kw |-> {}],
       [op |-> "features", ret |-> "", args |-> <<"rfc5280_incompatible_with_webpki">>, kw |-> {}],
       [op |-> "trusted_certs", ret |-> "", args |-> <<"root">>, kw |-> {}],
       [op |-> "peer_certificate", ret |-> "", args |-> <<"leaf">>, kw |-> {}],
       [op |-> "expected_peer_name", ret |-> "", args |-> <<"DNS:example.com">>, kw |-> {}],
       [op |-> "fails", ret |-> "", args |-> <<>>, kw |-> {}] >>

\* src/limbo/testcases/rfc5280/nc.py:144-179  def permitted_dns_match_more(builder)
permitted_dns_match_more ==
    << [op |-> "root_ca", ret |-> "root", args |-> <<>>, kw |-> {"name_constraints"}],
       [op |-> "leaf_cert", ret |-> "leaf", args |-> <<"root">>, kw |-> {"san"}],
       [op |-> "server_validation", ret |-> "", args |-> <<>>, kw |-> {}],
       [op |-> "trusted_certs", ret |-> "", args |-> <<"root">>, kw |-> {}],
       [op |-> "peer_certificate", ret |-> "", args |-> <<"leaf">>, kw |-> {}],
       [op |-> "expected_peer_name", ret |-> "", args |-> <<"DNS:foo.bar.example.com">>, kw |-> {}],
       [op |-> "succeeds", ret |-> "", args |-> <<>>, kw |-> {}] >>

\* src/limbo/testcases/rfc5280/nc.py:182-216  def excluded_dns_match_second(builder)
excluded_dns_match_second ==
    << [op |-> "root_ca", ret |-> "root", args |-> <<>>, kw |-> {"name_constraints"}],
       [op |-> "leaf_cert", ret |-> "leaf", args |-> <<"root">>, kw |-> {"san"}],
       [op |-> "server_validation", ret |-> "", args |-> <<>>, kw |-> {}],
       [op |-> "trusted_certs", ret |-> "", args |-> <<"root">>, kw |-> {}],
       [op |-> "peer_certificate", ret |-> "", args |-> <<"leaf">>, kw |-> {}],
       [op |-> "expected_peer_name", ret |-> "", args |-> <<"DNS:example.com">>, kw |-> {}],
       [op |-> "fails", ret |-> "", args |-> <<>>, kw |-> {}] >>

\* src/limbo/testcases/rfc5280/nc.py:219-251  def permitted_ip_mismatch(builder)
permitted_ip_mismatch ==
    << [op |-> "root_ca", ret |-> "root", args |-> <<>>, kw |-> {"name_constraints"}],
       [op |-> "leaf_cert", ret |-> "leaf", args |-> <<"root">>, kw |-> {"san"}],
       [op |-> "server_validation", ret |-> "", args |-> <<>>, kw |-> {}],
       [op |-> "trusted_certs", ret |-> "", args |-> <<"root">>, kw |-> {}],
       [op |-> "peer_certificate", ret |-> "", args |-> <<"leaf">>, kw |-> {}],
       [op |-> "expected_peer_name", ret |-> "", args |-> <<"IP:192.0.3.1">>, kw |-> {}],
       [op |-> "fails", ret |-> "", args |-> <<>>, kw |-> {}] >>

\* src/limbo/testcases/rfc5280/nc.py:254-285  def excluded_ipv4_match(builder)
excluded_ipv4_match ==
    << [op |-> "root_ca", ret |-> "root", args |-> <<>>, kw |-> {"name_constraints"}],
       [op |-> "leaf_cert", ret |-> "leaf", args |-> <<"root">>, kw |-> {"san"}],
       [op |-> "server_validation", ret |-> "", args |-> <<>>, kw |-> {}],
       [op |-> "trusted_certs", ret |-> "", args |-> <<"root">>, kw |-> {}],
       [op |-> "peer_certificate", ret |-> "", args |-> <<"leaf">>, kw |-> {}],
       [op |-> "expected_peer_name", ret |-> "", args |-> <<"IP:192.0.2.1">>, kw |-> {}],
       [op |-> "fails", ret |-> "", args |-> <<>>, kw |-> {}] >>

\* src/limbo/testcases/rfc5280/nc.py:288-317  def excluded_ipv6_match(builder)
excluded_ipv6_match ==
    << [op |-> "root_ca", ret |-> "root", args |-> <<>>, kw |-> {"name_constraints"}],
       [op |-> "leaf_cert", ret |-> "leaf", args |-> <<"root">>, kw |-> {"san"}],
       [op |-> "server_validation", ret |-> "", args |-> <<>>, kw |-> {}],
       [op |-> "trusted_certs", ret |-> "", args |-> <<"root">>, kw |-> {}],
       [op |-> "peer_certificate", ret |-> "", args |-> <<"leaf">>, kw |-> {}],
       [op |-> "expected_peer_name", ret |-> "", args |-> <<"IP:::1">>, kw |-> {}],
       [op |-> "fails", ret |-> "", args |-> <<>>, kw |-> {}] >>

\* src/limbo/testcases/rfc5280/nc.py:320-352  def permitted_ipv4_match(builder)
permitted_ipv4_match ==
    << [op |-> "root_ca", ret |-> "root", args |-> <<>>, kw |-> {"name_constraints"}],
       [op |-> "leaf_cert", ret |-> "leaf", args |-> <<"root">>, kw |-> {"san"}],
       [op |-> "server_validation", ret |-> "", args |-> <<>>, kw |-> {}],
       [op |-> "trusted_certs", ret |-> "", args |-> <<"root">>, kw |-> {}],
       [op |-> "peer_certificate", ret |-> "", args |-> <<"leaf">>, kw |-> {}],
       [op |-> "expected_peer_name", ret |-> "", args |-> <<"IP:192.0.2.1">>, kw |-> {}],
       [op |-> "succeeds", ret |-> "", args |-> <<>>, kw |-> {}] >>

\* src/limbo/testcases/rfc5280/nc.py:355-385  def permitted_ipv6_match(builder)
permitted_ipv6_match ==
    << [op |-> "root_ca", ret |-> "root", args |-> <<>>, kw |-> {"name_constraints"}],
       [op |-> "leaf_cert", ret |-> "leaf", args |-> <<"root">>, kw |-> {"san"}],
       [op |-> "server_validation", ret |-> "", args |-> <<>>, kw |-> {}],
       [op |-> "trusted_certs", ret |-> "", args |-> <<"root">>, kw |-> {}],
       [op |-> "peer_certificate", ret |-> "", args |-> <<"leaf">>, kw |-> {}],
       [op |-> "expected_peer_name", ret |-> "", args |-> <<"IP:::1">>, kw |-> {}],
       [op |-> "succeeds", ret |-> "", args |-> <<>>, kw |-> {}] >>

\* src/limbo/testcases/rfc5280/nc.py:388-421  def permitted_dn_mismatch(builder)
permitted_dn_mismatch ==
    << [op |-> "root_ca", ret |-> "root", args |-> <<>>, kw |-> {"name_constraints"}],
       [op |-> "leaf_cert", ret |-> "leaf", args |-> <<"root">>, kw |-> {"san", "subject"}],
       [op |-> "server_validation", ret |-> "", args |-> <<>>, kw |-> {}],
       [op |-> "features", ret |-> "", args |-> <<"name_constraint_dn">>, kw |-> {}],
       [op |-> "trusted_certs", ret |-> "", args |-> <<"root">>, kw |-> {}],
       [op |-> "peer_certificate", ret |-> "", args |-> <<"leaf">>, kw |-> {}],
       [op |-> "fails", ret |-> "", args |-> <<>>, kw |-> {}] >>

\* src/limbo/testcases/rfc5280/nc.py:424-457  def excluded_dn_match(builder)
excluded_dn_match ==
    << [op |-> "root_ca", ret |-> "root", args |-> <<>>, kw |-> {"name_constraints"}],
       [op |-> "leaf_cert", ret |-> "leaf", args |-> <<"root">>, kw |-> {"san", "subject"}],
       [op |-> "server_validation", ret |-> "", args |-> <<>>, kw |-> {}],
       [op |-> "features", ret |-> "", args |-> <<"name_constraint_dn">>, kw |-> {}],
       [op |-> "trusted_certs", ret |-> "", args |-> <<"root">>, kw |-> {}],
       [op |-> "peer_certificate", ret |-> "", args |-> <<"leaf">>, kw |-> {}],
       [op |-> "fails", ret |-> "", args |-> <<>>, kw |-> {}] >>

\* src/limbo/testcases/rfc5280/nc.py:460-493  def permitted_dn_match(builder)
permitted_dn_match ==
    << [op |-> "root_ca", ret |-> "root", args |-> <<>>, kw |-> {"name_constraints"}],
       [op |-> "leaf_cert", ret |-> "leaf", args |-> <<"root">>, kw |-> {"san", "subject"}],
       [op |-> "server_validation", ret |-> "", args |-> <<>>, kw |-> {}],
       [op |-> "features", ret |-> "", args |-> <<"name_constraint_dn">>, kw |-> {}],
       [op |-> "trusted_certs", ret |-> "", args |-> <<"root">>, kw |-> {}],
       [op |-> "peer_certificate", ret |-> "", args |-> <<"leaf">>, kw |-> {}],
       [op |-> "succeeds", ret |-> "", args |-> <<>>, kw |-> {}] >>

\* src/limbo/testcases/rfc5280/nc.py:496-535  def permitted_dn_match_subject_san_mismatch(builder)
permitted_dn_match_subject_san_mismatch ==
    << [op |-> "root_ca", ret |-> "root", args |-> <<>>, kw |-> {"name_constraints"}],
       [op |-> "leaf_cert", ret |-> "leaf", args |-> <<"root">>, kw |-> {"san", "subject"}],
       [op |-> "server_validation", ret |-> "", args |-> <<>>, kw |-> {}],
       [op |-> "features", ret |-> "", args |-> <<"name_constraint_dn">>, kw |-> {}],
       [op |-> "trusted_certs", ret |-> "", args |-> <<"root">>, kw |-> {}],
       [op |-> "peer_certificate", ret |-> "", args |-> <<"leaf">>, kw |-> {}],
       [op |-> "fails", ret |-> "", args |-> <<>>, kw |-> {}] >>

\* src/limbo/testcases/rfc5280/nc.py:538-577  def excluded_dn_match_sub_mismatch(builder)
excluded_dn_match_sub_mismatch ==
    << [op |-> "root_ca", ret |-> "root", args |-> <<>>, kw |-> {"name_constraints"}],
       [op |-> "leaf_cert", ret |-> "leaf", args |-> <<"root">>, kw |-> {"san", "subject"}],
       [op |-> "server_validation", ret |-> "", args |-> <<>>, kw |-> {}],
       [op |-> "features", ret |-> "", args |-> <<"name_constraint_dn">>, kw |-> {}],
       [op |-> "trusted_certs", ret |-> "", args |-> <<"root">>, kw |-> {}],
       [op |-> "peer_certificate", ret |-> "", args |-> <<"leaf">>, kw |-> {}],
       [op |-> "fails", ret |-> "", args |-> <<>>, kw |-> {}] >>

\* src/limbo/testcases/rfc5280/nc.py:582-625  def permitted_self_issued(builder)
permitted_self_issued ==
    << [op |-> "root_ca", ret |-> "root", args |-> <<>>, kw |-> {"issuer", "name_constraints", "san", "subject"}],
       [op |-> "intermediate_ca", ret |-> "intermediate", args |-> <<"root">>, kw |-> {"issuer", "san", "subject"}],
       [op |-> "leaf_cert", ret |-> "leaf", args |-> <<"intermediate">>, kw |-> {}],
       [op |-> "server_validation", ret |-> "", args |-> <<>>, kw |-> {}],
       [op |-> "trusted_certs", ret |-> "", args |-> <<"root">>, kw |-> {}],
       [op |-> "untrusted_intermediates", ret |-> "", args |-> <<"intermediate">>, kw |-> {}],
       [op |-> "peer_certificate", ret |-> "", args |-> <<"leaf">>, kw |-> {}],
       [op |-> "succeeds", ret |-> "", args |-> <<>>, kw |-> {}] >>

\* src/limbo/testcases/rfc5280/nc.py:628-672  def excluded_self_issued_leaf(builder)
excluded_self_issued_leaf ==
    << [op |-> "root_ca", ret |-> "root", args |-> <<>>, kw |-> {"name_constraints"}],
       [op |-> "intermediate_ca", ret |-> "intermediate", args |-> <<"root">>, kw |-> {"san", "subject"}],
       [op |-> "leaf_cert", ret |-> "leaf", args |-> <<"intermediate">>, kw |-> {"issuer", "san", "subject"}],
       [op |-> "server_validation", ret |-> "", args |-> <<>>, kw |-> {}],
       [op |-> "trusted_certs", ret |-> "", args |-> <<"root">>, kw |-> {}],
       [op |-> "untrusted_intermediates", ret |-> "", args |-> <<"intermediate">>, kw |-> {}],
       [op |-> "peer_certificate", ret |-> "", args |-> <<"leaf">>, kw |-> {}],
       [op |-> "expected_peer_name", ret |-> "", args |-> <<"DNS:not-example.com">>, kw |-> {}],
       [op |-> "fails", ret |-> "", args |-> <<>>, kw |-> {}] >>

\* src/limbo/testcases/rfc5280/nc.py:675-707  def excluded_match_permitted_and_excluded(builder)
excluded_match_permitted_and_excluded ==
    << [op |-> "root_ca", ret |-> "root", args |-> <<>>, kw |-> {"name_constraints"}],
       [op |-> "leaf_cert", ret |-> "leaf", args |-> <<"root">>, kw |-> {"san"}],
       [op |-> "server_validation", ret |-> "", args |-> <<>>, kw |-> {}],
       [op |-> "trusted_certs", ret |-> "", args |-> <<"root">>, kw |-> {}],
       [op |-> "peer_certificate", ret |-> "", args |-> <<"leaf">>, kw |-> {}],
       [op |-> "expected_peer_name", ret |-> "", args |-> <<"DNS:example.com">>, kw |-> {}],
       [op |-> "fails", ret |-> "", args |-> <<>>, kw |-> {}] >>

\* src/limbo/testcases/rfc5280/nc.py:710-738  def permitted_different_constraint_type(builder)
permitted_different_constraint_type ==
    << [op |-> "root_ca", ret |-> "root", args |-> <<>>, kw |-> {"name_constraints"}],
       [op |-> "leaf_cert", ret |-> "leaf", args |-> <<"root">>, kw |-> {"san"}],
       [op |-> "server_validation", ret |-> "", args |-> <<>>, kw |-> {}],
       [op |-> "trusted_certs", ret |-> "", args |-> <<"root">>, kw |-> {}],
       [op |-> "peer_certificate", ret |-> "", args |-> <<"leaf">>, kw |-> {}],
       [op |-> "expected_peer_name", ret |-> "", args |-> <<"DNS:example.com">>, kw |-> {}],
       [op |-> "succeeds", ret |-> "", args |-> <<>>, kw |-> {}] >>

\* src/limbo/testcases/rfc5280/nc.py:741-769  def excluded_different_constraint_type(builder)
excluded_different_constraint_type ==
    << [op |-> "root_ca", ret |-> "root", args |-> <<>>, kw |-> {"name_constraints"}],
       [op |-> "leaf_cert", ret |-> "leaf", args |-> <<"root">>, kw |-> {"san"}],
       [op |-> "server_validation", ret |-> "", args |-> <<>>, kw |-> {}],
       [op |-> "trusted_certs", ret |-> "", args |-> <<"root">>, kw |-> {}],
       [op |-> "peer_certificate", ret |-> "", args |-> <<"leaf">>, kw |-> {}],
       [op |-> "expected_peer_name", ret |-> "", args |-> <<"DNS:example.com">>, kw |-> {}],
       [op |-> "succeeds", ret |-> "", args |-> <<>>, kw |-> {}] >>

\* src/limbo/testcases/rfc5280/nc.py:772-800  def invalid_dnsname_wildcard(builder)
invalid_dnsname_wildcard ==
    << [op |-> "root_ca", ret |-> "root", args |-> <<>>, kw |-> {"name_constraints"}],
       [op |-> "leaf_cert", ret |-> "leaf", args |-> <<"root">>, kw |-> {"san"}],
       [op |-> "server_validation", ret |-> "", args |-> <<>>, kw |-> {}],
       [op |-> "trusted_certs", ret |-> "", args |-> <<"root">>, kw |-> {}],
       [op |-> "peer_certificate", ret |-> "", args |-> <<"leaf">>, kw |-> {}],
       [op |-> "expected_peer_name", ret |-> "", args |-> <<"DNS:foo.example.com">>, kw |-> {}],
       [op |-> "fails", ret |-> "", args |-> <<>>, kw |-> {}] >>

\* src/limbo/testcases/rfc5280/nc.py:803-835  def invalid_dnsname_leading_period(builder)
invalid_dnsname_leading_period ==
    << [op |-> "root_ca", ret |-> "root", args |-> <<>>, kw |-> {"name_constraints"}],
       [op |-> "leaf_cert", ret |-> "leaf", args |-> <<"root">>, kw |-> {"san"}],
       [op |-> "server_validation", ret |-> "", args |-> <<>>, kw |-> {}],
       [op |-> "trusted_certs", ret |-> "", args |-> <<"root">>, kw |-> {}],
       [op |-> "peer_certificate", ret |-> "", args |-> <<"leaf">>, kw |-> {}],
       [op |-> "expected_peer_name", ret |-> "", args |-> <<"DNS:foo.example.com">>, kw |-> {}],
       [op |-> "fails", ret |-> "", args |-> <<>>, kw |-> {}] >>

\* src/limbo/testcases/rfc5280/nc.py:838-868  def invalid_ipv4_address(builder)
invalid_ipv4_address ==
    << [op |-> "root_ca", ret |-> "root", args |-> <<>>, kw |-> {"name_constraints"}],
       [op |-> "leaf_cert", ret |-> "leaf", args |-> <<"root">>, kw |-> {"san"}],
       [op |-> "server_validation", ret |-> "", args |-> <<>>, kw |-> {}],
       [op |-> "trusted_certs", ret |-> "", args |-> <<"root">>, kw |-> {}],
       [op |-> "peer_certificate", ret |-> "", args |-> <<"leaf">>, kw |-> {}],
       [op |-> "expected_peer_name", ret |-> "", args |-> <<"IP:127.0.0.1">>, kw |-> {}],
       [op |-> "fails", ret |-> "", args |-> <<>>, kw |-> {}] >>

\* src/limbo/testcases/rfc5280/nc.py:871-899  def invalid_ipv6_address(builder)
invalid_ipv6_address ==
    << [op |-> "root_ca", ret |-> "root", args |-> <<>>, kw |-> {"name_constraints"}],
       [op |-> "leaf_cert", ret |-> "leaf", args |-> <<"root">>, kw |-> {"san"}],
       [op |-> "server_validation", ret |-> "", args |-> <<>>, kw |-> {}],
       [op |-> "trusted_certs", ret |-> "", args |-> <<"root">>, kw |-> {}],
       [op |-> "peer_certificate", ret |-> "", args |-> <<"leaf">>, kw |-> {}],
       [op |-> "expected_peer_name", ret |-> "", args |-> <<"IP:::1">>, kw |-> {}],
       [op |-> "fails", ret |-> "", args |-> <<>>, kw |-> {}] >>

\* src/limbo/testcases/rfc5280/nc.py:902-942  def invalid_email_address(builder)
invalid_email_address ==
    << [op |-> "root_ca", ret |-> "root", args |-> <<>>, kw |-> {"name_constraints"}],
       [op |-> "leaf_cert", ret |-> "leaf", args |-> <<"root">>, kw |-> {"eku", "san"}],
       [op |-> "client_validation", ret |-> "", args |-> <<>>, kw |-> {}],
       [op |-> "extended_key_usage", ret |-> "", args |-> <<"client_auth">>, kw |-> {}],
       [op |-> "trusted_certs", ret |-> "", args |-> <<"root">>, kw |-> {}],
       [op |-> "peer_certificate", ret |-> "", args |-> <<"leaf">>, kw |-> {}],
       [op |-> "expected_peer_names", ret |-> "", args |-> <<"RFC822:example@example.com">>, kw |-> {}],
       [op |-> "fails", ret |-> "", args |-> <<>>, kw |-> {}] >>

\* src/limbo/testcases/rfc5280/nc.py:945-975  def not_allowed_in_ee_noncritical(builder)
not_allowed_in_ee_noncritical ==
    << [op |-> "root_ca", ret |-> "root", args |-> <<>>, kw |-> {}],
       [op |-> "leaf_cert", ret |-> "leaf", args |-> <<"root">>, kw |-> {"extra_extension"}],
       [op |-> "server_validation", ret |-> "", args |-> <<>>, kw |-> {}],
       [op |-> "trusted_certs", ret |-> "", args |-> <<"root">>, kw |-> {}],
       [op |-> "peer_certificate", ret |-> "", args |-> <<"leaf">>, kw |-> {}],
       [op |-> "expected_peer_name", ret |-> "", args |-> <<"DNS:example.com">>, kw |-> {}],
       [op |-> "fails", ret |-> "", args |-> <<>>, kw |-> {}] >>

\* src/limbo/testcases/rfc5280/nc.py:978-1008  def not_allowed_in_ee_critical(builder)
not_allowed_in_ee_critical ==
    << [op |-> "root_ca", ret |-> "root", args |-> <<>>, kw |-> {}],
       [op |-> "leaf_cert", ret |-> "leaf", args |-> <<"root">>, kw |-> {"extra_extension"}],
       [op |-> "server_validation", ret |-> "", args |-> <<>>, kw |-> {}],
       [op |-> "trusted_certs", ret |-> "", args |-> <<"root">>, kw |-> {}],
       [op |-> "peer_certificate", ret |-> "", args |-> <<"leaf">>, kw |-> {}],
       [op |-> "expected_peer_name", ret |-> "", args |-> <<"DNS:example.com">>, kw |-> {}],
       [op |-> "fails", ret |-> "", args |-> <<>>, kw |-> {}] >>

\* src/limbo/testcases/rfc5280/nc.py:1011-1063  def intermediate_with_san_rejected_by_intermediate_nc(builder)
intermediate_with_san_rejected_by_intermediate_nc ==
    << [op |-> "root_ca", ret |-> "root", args |-> <<>>, kw |-> {}],
       [op |-> "intermediate_ca", ret |-> "ica1", args |-> <<"root">>, kw |-> {"name_constraints"}],
       [op |-> "intermediate_ca", ret |-> "ica2", args |-> <<"ica1">>, kw |-> {"san"}],
       [op |-> "leaf_cert", ret |-> "leaf", args |-> <<"ica2">>, kw |-> {"san"}],
       [op |-> "server_validation", ret |-> "", args |-> <<>>, kw |-> {}],
       [op |-> "trusted_certs", ret |-> "", args |-> <<"root">>, kw |-> {}],
       [op |-> "untrusted_intermediates", ret |-> "", args |-> <<"ica1", "ica2">>, kw |-> {}],
       [op |-> "peer_certificate", ret |-> "", args |-> <<"leaf">>, kw |-> {}],
       [op |-> "expected_peer_name", ret |-> "", args |-> <<"DNS:permitted.example.com">>, kw |-> {}],
       [op |-> "fails", ret |-> "", args |-> <<>>, kw |-> {}] >>

\* src/limbo/testcases/rfc5280/nc.py:1066-1117  def intermediate_with_san_rejected_by_root_nc(builder)
intermediate_with_san_rejected_by_root_nc ==
    << [op |-> "root_ca", ret |-> "root", args |-> <<>>, kw |-> {"name_constraints"}],
       [op |-> "intermediate_ca", ret |-> "ica1", args |-> <<"root">>, kw |-> {}],
       [op |-> "intermediate_ca", ret |-> "ica2", args |-> <<"ica1">>, kw |-> {"san"}],
       [op |-> "leaf_cert", ret |-> "leaf", args |-> <<"ica2">>, kw |-> {"san"}],
       [op |-> "server_validation", ret |-> "", args |-> <<>>, kw |-> {}],
       [op |-> "trusted_certs", ret |-> "", args |-> <<"root">>, kw |-> {}],
       [op |-> "untrusted_intermediates", ret |-> "", args |-> <<"ica1", "ica2">>, kw |-> {}],
       [op |-> "peer_certificate", ret |-> "", args |-> <<"leaf">>, kw |-> {}],
       [op |-> "expected_peer_name", ret |-> "", args |-> <<"DNS:permitted.example.com">>, kw |-> {}],
       [op |-> "fails", ret |-> "", args |-> <<>>, kw |-> {}] >>

\* src/limbo/testcases/rfc5280/nc.py:1120-1177  def restrictive_permits_in_intermediates_narrows(builder)
restrictive_permits_in_intermediates_narrows ==
    << [op |-> "root_ca", ret |-> "root", args |-> <<>>, kw |-> {}],
       [op |-> "intermediate_ca", ret |-> "ica1", args |-> <<"root">>, kw |-> {"name_constraints"}],
       [op |-> "intermediate_ca", ret |-> "ica2", args |-> <<"ica1">>, kw |-> {"name_constraints"}],
       [op |-> "leaf_cert", ret |-> "leaf", args |-> <<"ica2">>, kw |-> {"san"}],
       [op |-> "server_validation", ret |-> "", args |-> <<>>, kw |-> {}],
       [op |-> "trusted_certs", ret |-> "", args |-> <<"root">>, kw |-> {}],
       [op |-> "untrusted_intermediates", ret |-> "", args |-> <<"ica1", "ica2">>, kw |-> {}],
       [op |-> "peer_certificate", ret |-> "", args |-> <<"leaf">>, kw |-> {}],
       [op |-> "expected_peer_name", ret |-> "", args |-> <<"DNS:foo.example.com">>, kw |-> {}],
       [op |-> "fails", ret |-> "", args |-> <<>>, kw |-> {}] >>

\* src/limbo/testcases/rfc5280/nc.py:1180-1240  def restrictive_permits_in_intermediates_widens(builder)
restrictive_permits_in_intermediates_widens ==
    << [op |-> "root_ca", ret |-> "root", args |-> <<>>, kw |-> {}],
       [op |-> "intermediate_ca", ret |-> "ica1", args |-> <<"root">>, kw |-> {"name_constraints"}],
       [op |-> "intermediate_ca", ret |-> "ica2", args |-> <<"ica1">>, kw |-> {"name_constraints"}],
       [op |-> "leaf_cert", ret |-> "leaf", args |-> <<"ica2">>, kw |-> {"san"}],
       [op |-> "server_validation", ret |-> "", args |-> <<>>, kw |-> {}],
       [op |-> "trusted_certs", ret |-> "", args |-> <<"root">>, kw |-> {}],
       [op |-> "untrusted_intermediates", ret |-> "", args |-> <<"ica1", "ica2">>, kw |-> {}],
       [op |-> "peer_certificate", ret |-> "", args |-> <<"leaf">>, kw |-> {}],
       [op |-> "expected_peer_name", ret |-> "", args |-> <<"DNS:foo.example.com">>, kw |-> {}],
       [op |-> "fails", ret |-> "", args |-> <<>>, kw |-> {}] >>

\* src/limbo/testcases/rfc5280/nc.py:1243-1285  def nc_permits_invalid_dns_san(builder)
nc_permits_invalid_dns_san ==
    << [op |-> "root_ca", ret |-> "root", args |-> <<>>, kw |-> {}],
       [op |-> "intermediate_ca", ret |-> "intermediate", args |-> <<"root">>, kw |-> {"name_constraints"}],
       [op |-> "leaf_cert", ret |-> "leaf", args |-> <<"intermediate">>, kw |-> {"san"}],
       [op |-> "server_validation", ret |-> "", args |-> <<>>, kw |-> {}],
       [op |-> "trusted_certs", ret |-> "", args |-> <<"root">>, kw |-> {}],
       [op |-> "untrusted_intermediates", ret |-> "", args |-> <<"intermediate">>, kw |-> {}],
       [op |-> "peer_certificate", ret |-> "", args |-> <<"leaf">>, kw |-> {}],
       [op |-> "expected_peer_name", ret |-> "", args |-> <<"DNS:foo.example.com">>, kw |-> {}],
       [op |-> "fails", ret |-> "", args |-> <<>>, kw |-> {}] >>

\* src/limbo/testcases/rfc5280/nc.py:1288-1334  def nc_permits_invalid_ip_san(builder)
nc_permits_invalid_ip_san ==
    << [op |-> "root_ca", ret |-> "root", args |-> <<>>, kw |-> {}],
       [op |-> "intermediate_ca", ret |-> "intermediate", args |-> <<"root">>, kw |-> {"name_constraints"}],
       [op |-> "leaf_cert", ret |-> "leaf", args |-> <<"intermediate">>, kw |-> {"san"}],
       [op |-> "server_validation", ret |-> "", args |-> <<>>, kw |-> {}],
       [op |-> "trusted_certs", ret |-> "", args |-> <<"root">>, kw |-> {}],
       [op |-> "untrusted_intermediates", ret |-> "", args |-> <<"intermediate">>, kw |-> {}],
       [op |-> "peer_certificate", ret |-> "", args |-> <<"leaf">>, kw |-> {}],
       [op |-> "expected_peer_name", ret |-> "", args |-> <<"IP:192.0.2.1">>, kw |-> {}],
       [op |-> "fails", ret |-> "", args |-> <<>>, kw |-> {}] >>

\* src/limbo/testcases/rfc5280/nc.py:1337-1392  def nc_permits_invalid_email_san(builder)
nc_permits_invalid_email_san ==
    << [op |-> "root_ca", ret |-> "root", args |-> <<>>, kw |-> {}],
       [op |-> "intermediate_ca", ret |-> "intermediate", args |-> <<"root">>, kw |-> {"name_constraints"}],
       [op |-> "leaf_cert", ret |-> "leaf", args |-> <<"intermediate">>, kw |-> {"eku", "san"}],
       [op |-> "client_validation", ret |-> "", args |-> <<>>, kw |-> {}],
       [op |-> "extended_key_usage", ret |-> "", args |-> <<"client_auth">>, kw |-> {}],
       [op |-> "trusted_certs", ret |-> "", args |-> <<"root">>, kw |-> {}],
       [op |-> "untrusted_intermediates", ret |-> "", args |-> <<"intermediate">>, kw |-> {}],
       [op |-> "peer_certificate", ret |-> "", args |-> <<"leaf">>, kw |-> {}],
       [op |-> "expected_peer_names", ret |-> "", args |-> <<"RFC822:good@example.com", "RFC822:alsogood@example.com">>, kw |-> {}],
       [op |-> "fails", ret |-> "", args |-> <<>>, kw |-> {}] >>

\* src/limbo/testcases/rfc5280/nc.py:1395-1457  def nc_forbids_alternate_chain_ica(builder)
nc_forbids_alternate_chain_ica ==
    << [op |-> "root_ca", ret |-> "discarded_root", args |-> <<>>, kw |-> {"san"}],
       [op |-> "root_ca", ret |-> "trusted_root", args |-> <<>>, kw |-> {"san"}],
       [op |-> "intermediate_ca", ret |-> "ica_a", args |-> <<"trusted_root">>, kw |-> {"name_constraints", "san"}],
       [op |-> "intermediate_ca", ret |-> "ica_b_1", args |-> <<"discarded_root">>, kw |-> {"key", "san", "subject"}],
       [op |-> "intermediate_ca", ret |-> "ica_b_2", args |-> <<"ica_a">>, kw |-> {"key", "san", "subject"}],
       [op |-> "leaf_cert", ret |-> "leaf", args |-> <<"ica_b_1">>, kw |-> {"san", "subject"}],
       [op |-> "server_validation", ret |-> "", args |-> <<>>, kw |-> {}],
       [op |-> "trusted_certs", ret |-> "", args |-> <<"trusted_root">>, kw |-> {}],
       [op |-> "untrusted_intermediates", ret |-> "", args |-> <<"ica_a", "ica_b_1", "ica_b_2">>, kw |-> {}],
       [op |-> "peer_certificate", ret |-> "", args |-> <<"leaf">>, kw |-> {}],
       [op |-> "expected_peer_name", ret |-> "", args |-> <<"DNS:permitted.example.com">>, kw |-> {}],
       [op |-> "succeeds", ret |-> "", args |-> <<>>, kw |-> {}] >>

\* src/limbo/testcases/rfc5280/nc.py:1460-1525  def nc_forbids_same_chain_ica(builder)
nc_forbids_same_chain_ica ==
    << [op |-> "root_ca", ret |-> "root_a", args |-> <<>>, kw |-> {"san"}],
       [op |-> "root_ca", ret |-> "root_b", args |-> <<>>, kw |-> {"san"}],
       [op |-> "intermediate_ca", ret |-> "ica_a", args |-> <<"root_a">>, kw |-> {"name_constraints", "san"}],
       [op |-> "intermediate_ca", ret |-> "ica_b_1", args |-> <<"ica_a">>, kw |-> {"key", "san", "subject"}],
       [op |-> "intermediate_ca", ret |-> "ica_b_2", args |-> <<"root_b">>, kw |-> {"key", "san", "subject"}],
       [op |-> "leaf_cert", ret |-> "leaf", args |-> <<"ica_b_1">>, kw |-> {"san", "subject"}],
       [op |-> "server_validation", ret |-> "", args |-> <<>>, kw |-> {}],
       [op |-> "trusted_certs", ret |-> "", args |-> <<"root_a", "root_b">>, kw |-> {}],
       [op |-> "untrusted_intermediates", ret |-> "", args |-> <<"ica_a", "ica_b_1", "ica_b_2">>, kw |-> {}],
       [op |-> "peer_certificate", ret |-> "", args |-> <<"leaf">>, kw |-> {}],
       [op |-> "expected_peer_name", ret |-> "", args |-> <<"DNS:unconstrained.example.com">>, kw |-> {}],
       [op |-> "succeeds", ret |-> "", args |-> <<>>, kw |-> {}] >>

\* src/limbo/testcases/rfc5280/nc.py:1528-1569  def nc_permits_email_exact(builder)
nc_permits_email_exact ==
    << [op |-> "root_ca", ret |-> "root", args |-> <<>>, kw |-> {}],
       [op |-> "intermediate_ca", ret |-> "ica", args |-> <<"root">>, kw |-> {"name_constraints", "san"}],
       [op |-> "leaf_cert", ret |-> "leaf", args |-> <<"ica">>, kw |-> {"eku", "san"}],
       [op |-> "client_validation", ret |-> "", args |-> <<>>, kw |-> {}],
       [op |-> "extended_key_usage", ret |-> "", args |-> <<"client_auth">>, kw |-> {}],
       [op |-> "trusted_certs", ret |-> "", args |-> <<"root">>, kw |-> {}],
       [op |-> "untrusted_intermediates", ret |-> "", args |-> <<"ica">>, kw |-> {}],
       [op |-> "peer_certificate", ret |-> "", args |-> <<"leaf">>, kw |-> {}],
       [op |-> "expected_peer_names", ret |-> "", args |-> <<"RFC822:foo@example.com">>, kw |-> {}],
       [op |-> "succeeds", ret |-> "", args |-> <<>>, kw |-> {}] >>

\* src/limbo/testcases/rfc5280/nc.py:1572-1613  def nc_permits_email_domain(builder)
nc_permits_email_domain ==
    << [op |-> "root_ca", ret |-> "root", args |-> <<>>, kw |-> {}],
       [op |-> "intermediate_ca", ret |-> "ica", args |-> <<"root">>, kw |-> {"name_constraints", "san"}],
       [op |-> "leaf_cert", ret |-> "leaf", args |-> <<"ica">>, kw |-> {"eku", "san"}],
       [op |-> "client_validation", ret |-> "", args |-> <<>>, kw |-> {}],
       [op |-> "extended_key_usage", ret |-> "", args |-> <<"client_auth">>, kw |-> {}],
       [op |-> "trusted_certs", ret |-> "", args |-> <<"root">>, kw |-> {}],
       [op |-> "untrusted_intermediates", ret |-> "", args |-> <<"ica">>, kw |-> {}],
       [op |-> "peer_certificate", ret |-> "", args |-> <<"leaf">>, kw |-> {}],
       [op |-> "expected_peer_names", ret |-> "", args |-> <<"RFC822:foo@example.com">>, kw |-> {}],
       [op |-> "succeeds", ret |-> "", args |-> <<>>, kw |-> {}] >>

\* src/limbo/testcases/rfc5280/nc.py:1616-1671  def nc_forbids_othername(builder)
nc_forbids_othername ==
    << [op |-> "root_ca", ret |-> "root", args |-> <<>>, kw |-> {}],
       [op |-> "intermediate_ca", ret |-> "ica", args |-> <<"root">>, kw |-> {"name_constraints", "san"}],
       [op |-> "leaf_cert", ret |-> "leaf", args |-> <<"ica">>, kw |-> {"san"}],
       [op |-> "server_validation", ret |-> "", args |-> <<>>, kw |-> {}],
       [op |-> "trusted_certs", ret |-> "", args |-> <<"root">>, kw |-> {}],
       [op |-> "untrusted_intermediates", ret |-> "", args |-> <<"ica">>, kw |-> {}],
       [op |-> "peer_certificate", ret |-> "", args |-> <<"leaf">>, kw |-> {}],
       [op |-> "expected_peer_name", ret |-> "", args |-> <<"DNS:example.com">>, kw |-> {}],
       [op |-> "fails", ret |-> "", args |-> <<>>, kw |-> {}] >>

\* src/limbo/testcases/rfc5280/nc.py:1674-1721  def nc_forbids_othername_noop(builder)
nc_forbids_othername_noop ==
    << [op |-> "root_ca", ret |-> "root", args |-> <<>>, kw |-> {}],
       [op |-> "intermediate_ca", ret |-> "ica", args |-> <<"root">>, kw |-> {"name_constraints", "san"}],
       [op |-> "leaf_cert", ret |-> "leaf", args |-> <<"ica">>, kw |-> {"san"}],
       [op |-> "server_validation", ret |-> "", args |-> <<>>, kw |-> {}],
       [op |-> "trusted_certs", ret |-> "", args |-> <<"root">>, kw |-> {}],
       [op |-> "untrusted_intermediates", ret |-> "", args |-> <<"ica">>, kw |-> {}],
       [op |-> "peer_certificate", ret |-> "", args |-> <<"leaf">>, kw |-> {}],
       [op |-> "expected_peer_name", ret |-> "", args |-> <<"DNS:example.com">>, kw |-> {}],
       [op |-> "succeeds", ret |-> "", args |-> <<>>, kw |-> {}] >>

\* src/limbo/testcases/rfc5280.py: the @testcase functions of the module, in definition order
rfc5280_module ==
    << [ns |-> "rfc5280", name |-> "ee_empty_issuer", body |-> ee_empty_issuer],
       [ns |-> "rfc5280", name |-> "ca_empty_subject", body |-> ca_empty_subject],
       [ns |-> "rfc5280", name |-> "unknown_critical_extension_ee", body |-> unknown_critical_extension_ee],
       [ns |-> "rfc5280", name |-> "unknown_critical_extension_root", body |-> unknown_critical_extension_root],
       [ns |-> "rfc5280", name |-> "unknown_critical_extension_intermediate", body |-> unknown_critical_extension_intermediate],
       [ns |-> "rfc5280", name |-> "critical_aki", body |-> critical_aki],
       [ns |-> "rfc5280", name |-> "self_signed_root_missing_aki", body |-> self_signed_root_missing_aki],
       [ns |-> "rfc5280", name |-> "cross_signed_root_missing_aki", body |-> cross_signed_root_missing_aki],
       [ns |-> "rfc5280", name |-> "intermediate_missing_aki", body |-> intermediate_missing_aki],
       [ns |-> "rfc5280", name |-> "leaf_missing_aki", body |-> leaf_missing_aki],
       [ns |-> "rfc5280", name |-> "critical_ski", body |-> critical_ski],
       [ns |-> "rfc5280", name |-> "missing_ski", body |-> missing_ski],
       [ns |-> "rfc5280", name |-> "multiple_chains_expired_intermediate", body |-> multiple_chains_expired_intermediate],
       [ns |-> "rfc5280", name |-> "chain_untrusted_root", body |-> chain_untrusted_root],
       [ns |-> "rfc5280", name |-> "intermediate_ca_without_ca_bit", body |-> intermediate_ca_without_ca_bit],
       [ns |-> "rfc5280", name |-> "intermediate_ca_missing_basic_constraints", body |-> intermediate_ca_missing_basic_constraints],
       [ns |-> "rfc5280", name |-> "root_missing_basic_constraints", body |-> root_missing_basic_constraints],
       [ns |-> "rfc5280", name |-> "root_non_critical_basic_constraints", body |-> root_non_critical_basic_constraints],
       [ns |-> "rfc5280", name |-> "root_inconsistent_ca_extensions", body |-> root_inconsistent_ca_extensions],
       [ns |-> "rfc5280", name |-> "ica_ku_keycertsign", body |-> ica_ku_keycertsign],
       [ns |-> "rfc5280", name |-> "leaf_ku_keycertsign", body |-> leaf_ku_keycertsign],
       [ns |-> "rfc5280", name |-> "ca_nameconstraints_permitted_dns_mismatch", body |-> ca_nameconstraints_permitted_dns_mismatch],
       [ns |-> "rfc5280", name |-> "ca_nameconstraints_excluded_dns_match", body |-> ca_nameconstraints_excluded_dns_match],
       [ns |-> "rfc5280", name |-> "ca_nameconstraints_permitted_dns_match", body |-> ca_nameconstraints_permitted_dns_match],
       [ns |-> "rfc5280", name |-> "ca_nameconstraints_permitted_dns_match_more", body |-> ca_nameconstraints_permitted_dns_match_more],
       [ns |-> "rfc5280", name |-> "ca_nameconstraints_excluded_dns_match_second", body |-> ca_nameconstraints_excluded_dns_match_second],
       [ns |-> "rfc5280", name |-> "ca_nameconstraints_permitted_ip_mismatch", body |-> ca_nameconstraints_permitted_ip_mismatch],
       [ns |-> "rfc5280", name |-> "ca_nameconstraints_excluded_ip_match", body |-> ca_nameconstraints_excluded_ip_match],
       [ns |-> "rfc5280", name |-> "ca_nameconstraints_permitted_ip_match", body |-> ca_nameconstraints_permitted_ip_match],
       [ns |-> "rfc5280", name |-> "ca_nameconstraints_permitted_dn_mismatch", body |-> ca_nameconstraints_permitted_dn_mismatch],
       [ns |-> "rfc5280", name |-> "ca_nameconstraints_excluded_dn_match", body |-> ca_nameconstraints_excluded_dn_match],
       [ns |-> "rfc5280", name |-> "ca_nameconstraints_permitted_dn_match", body |-> ca_nameconstraints_permitted_dn_match],
       [ns |-> "rfc5280", name |-> "ca_nameconstraints_permitted_dn_match_subject_san_mismatch", body |-> ca_nameconstraints_permitted_dn_match_subject_san_mismatch],
       [ns |-> "rfc5280", name |-> "ca_nameconstraints_excluded_dn_match_sub_mismatch", body |-> ca_nameconstraints_excluded_dn_match_sub_mismatch],
       [ns |-> "rfc5280", name |-> "ca_nameconstraints_permitted_self_issued", body |-> ca_nameconstraints_permitted_self_issued],
       [ns |-> "rfc5280", name |-> "ca_nameconstraints_excluded_self_issued_leaf", body |-> ca_nameconstraints_excluded_self_issued_leaf],
       [ns |-> "rfc5280", name |-> "ca_nameconstraints_excluded_match_permitted_and_excluded", body |-> ca_nameconstraints_excluded_match_permitted_and_excluded],
       [ns |-> "rfc5280", name |-> "ca_nameconstraints_permitted_different_constraint_type", body |-> ca_nameconstraints_permitted_different_constraint_type],
       [ns |-> "rfc5280", name |-> "ca_nameconstraints_excluded_different_constraint_type", body |-> ca_nameconstraints_excluded_different_constraint_type],
       [ns |-> "rfc5280", name |-> "ca_nameconstraints_invalid_dnsname", body |-> ca_nameconstraints_invalid_dnsname],
       [ns |-> "rfc5280", name |-> "ca_nameconstraints_invalid_ipaddress", body |-> ca_nameconstraints_invalid_ipaddress],
       [ns |-> "rfc5280", name |-> "ee_aia", body |-> ee_aia],
       [ns |-> "rfc5280", name |-> "ee_critical_aia_invalid", body |-> ee_critical_aia_invalid],
       [ns |-> "rfc5280", name |-> "san_noncritical_with_empty_subject", body |-> san_noncritical_with_empty_subject],
       [ns |-> "rfc5280", name |-> "serial_number_too_long", body |-> serial_number_too_long],
       [ns |-> "rfc5280", name |-> "serial_number_zero", body |-> serial_number_zero],
       [ns |-> "rfc5280", name |-> "duplicate_extensions", body |-> duplicate_extensions],
       [ns |-> "rfc5280", name |-> "no_keyusage", body |-> no_keyusage],
       [ns |-> "rfc5280", name |-> "no_basicconstraints", body |-> no_basicconstraints],
       [ns |-> "rfc5280", name |-> "wrong_eku", body |-> wrong_eku],
       [ns |-> "rfc5280", name |-> "mismatching_signature_algorithm", body |-> mismatching_signature_algorithm],
       [ns |-> "rfc5280", name |-> "malformed_subject_alternative_name", body |-> malformed_subject_alternative_name] >>

\* src/limbo/testcases/rfc5280/nc.py: the @testcase functions of the module, in definition order
rfc5280_nc_module ==
    << [ns |-> "rfc5280::nc", name |-> "permitted_dns_mismatch", body |-> permitted_dns_mismatch],
       [ns |-> "rfc5280::nc", name |-> "excluded_dns_match", body |-> excluded_dns_match],
       [ns |-> "rfc5280::nc", name |-> "permitted_dns_match", body |-> permitted_dns_match],
       [ns |-> "rfc5280::nc", name |-> "permitted_dns_match_noncritical", body |-> permitted_dns_match_noncritical],
       [ns |-> "rfc5280::nc", name |-> "permitted_dns_match_more", body |-> permitted_dns_match_more],
       [ns |-> "rfc5280::nc", name |-> "excluded_dns_match_second", body |-> excluded_dns_match_second],
       [ns |-> "rfc5280::nc", name |-> "permitted_ip_mismatch", body |-> permitted_ip_mismatch],
       [ns |-> "rfc5280::nc", name |-> "excluded_ipv4_match", body |-> excluded_ipv4_match],
       [ns |-> "rfc5280::nc", name |-> "excluded_ipv6_match", body |-> excluded_ipv6_match],
       [ns |-> "rfc5280::nc", name |-> "permitted_ipv4_match", body |-> permitted_ipv4_match],
       [ns |-> "rfc5280::nc", name |-> "permitted_ipv6_match", body |-> permitted_ipv6_match],
       [ns |-> "rfc5280::nc", name |-> "permitted_dn_mismatch", body |-> permitted_dn_mismatch],
       [ns |-> "rfc5280::nc", name |-> "excluded_dn_match", body |-> excluded_dn_match],
       [ns |-> "rfc5280::nc", name |-> "permitted_dn_match", body |-> permitted_dn_match],
       [ns |-> "rfc5280::nc", name |-> "permitted_dn_match_subject_san_mismatch", body |-> permitted_dn_match_subject_san_mismatch],
       [ns |-> "rfc5280::nc", name |-> "excluded_dn_match_sub_mismatch", body |-> excluded_dn_match_sub_mismatch],
       [ns |-> "rfc5280::nc", name |-> "permitted_self_issued", body |-> permitted_self_issued],
       [ns |-> "rfc5280::nc", name |-> "excluded_self_issued_leaf", body |-> excluded_self_issued_leaf],
       [ns |-> "rfc5280::nc", name |-> "excluded_match_permitted_and_excluded", body |-> excluded_match_permitted_and_excluded],
       [ns |-> "rfc5280::nc", name |-> "permitted_different_constraint_type", body |-> permitted_different_constraint_type],
       [ns |-> "rfc5280::nc", name |-> "excluded_different_constraint_type", body |-> excluded_different_constraint_type],
       [ns |-> "rfc5280::nc", name |-> "invalid_dnsname_wildcard", body |-> invalid_dnsname_wildcard],
       [ns |-> "rfc5280::nc", name |-> "invalid_dnsname_leading_period", body |-> invalid_dnsname_leading_period],
       [ns |-> "rfc5280::nc", name |-> "invalid_ipv4_address", body |-> invalid_ipv4_address],
       [ns |-> "rfc5280::nc", name |-> "invalid_ipv6_address", body |-> invalid_ipv6_address],
       [ns |-> "rfc5280::nc", name |-> "invalid_email_address", body |-> invalid_email_address],
       [ns |-> "rfc5280::nc", name |-> "not_allowed_in_ee_noncritical", body |-> not_allowed_in_ee_noncritical],
       [ns |-> "rfc5280::nc", name |-> "not_allowed_in_ee_critical", body |-> not_allowed_in_ee_critical],
       [ns |-> "rfc5280::nc", name |-> "intermediate_with_san_rejected_by_intermediate_nc", body |-> intermediate_with_san_rejected_by_intermediate_nc],
       [ns |-> "rfc5280::nc", name |-> "intermediate_with_san_rejected_by_root_nc", body |-> intermediate_with_san_rejected_by_root_nc],
       [ns |-> "rfc5280::nc", name |-> "restrictive_permits_in_intermediates_narrows", body |-> restrictive_permits_in_intermediates_narrows],
       [ns |-> "rfc5280::nc", name |-> "restrictive_permits_in_intermediates_widens", body |-> restrictive_permits_in_intermediates_widens],
       [ns |-> "rfc5280::nc", name |-> "nc_permits_invalid_dns_san", body |-> nc_permits_invalid_dns_san],
       [ns |-> "rfc5280::nc", name |-> "nc_permits_invalid_ip_san", body |-> nc_permits_invalid_ip_san],
       [ns |-> "rfc5280::nc", name |-> "nc_permits_invalid_email_san", body |-> nc_permits_invalid_email_san],
       [ns |-> "rfc5280::nc", name |-> "nc_forbids_alternate_chain_ica", body |-> nc_forbids_alternate_chain_ica],
       [ns |-> "rfc5280::nc", name |-> "nc_forbids_same_chain_ica", body |-> nc_forbids_same_chain_ica],
       [ns |-> "rfc5280::nc", name |-> "nc_permits_email_exact", body |-> nc_permits_email_exact],
       [ns |-> "rfc5280::nc", name |-> "nc_permits_email_domain", body |-> nc_permits_email_domain],
       [ns |-> "rfc5280::nc", name |-> "nc_forbids_othername", body |-> nc_forbids_othername],
       [ns |-> "rfc5280::nc", name |-> "nc_forbids_othername_noop", body |-> nc_forbids_othername_noop] >>

(***************************************************************************)
(* The keyword arguments of the certificate calls of the scenarios whose   *)
(* trust graph the properties below evaluate: names, subjectAltName, name  *)
(* constraints, not_after, and the key, SubjectKeyIdentifier and           *)
(* AuthorityKeyIdentifier (each the key it names), <<>> when left out.     *)
(***************************************************************************)
\* multiple_chains_expired_intermediate_kwargs with the intermediate's not_after left to its default
multiple_chains_expired_intermediate_kwargs_unexpired ==
    [ root |->
          [subject |-> <<>>, issuer |-> <<>>, san |-> <<>>, permitted |-> <<>>, excluded |-> <<>>, not_after |-> <<>>, key |-> <<>>, ski |-> <<>>, aki |-> <<>>],
      root_two |->
          [subject |-> <<>>, issuer |-> << <<"CN", "x509-limbo-root-2">> >>, san |-> <<>>, permitted |-> <<>>, excluded |-> <<>>, not_after |-> <<>>, key |-> <<>>, ski |-> <<>>, aki |-> <<>>],
      expired_intermediate |->
          [subject |-> << <<"subject of", "root">> >>, issuer |-> <<>>, san |-> <<>>, permitted |-> <<>>, excluded |-> <<>>, not_after |-> <<>>, key |-> << <<"key of", "root">> >>, ski |-> << <<"key of", "root">> >>, aki |-> <<>>],
      leaf |->
          [subject |-> <<>>, issuer |-> <<>>, san |-> <<>>, permitted |-> <<>>, excluded |-> <<>>, not_after |-> <<>>, key |-> <<>>, ski |-> <<>>, aki |-> <<>>] ]

\* src/limbo/testcases/rfc5280.py:30-33  the certificate calls of ee_empty_issuer
ee_empty_issuer_kwargs ==
    [ root |->
          [subject |-> << <<"CN", "empty-issuer">> >>, issuer |-> << <<>> >>, san |-> <<>>, permitted |-> <<>>, excluded |-> <<>>, not_after |-> <<>>, key |-> <<>>, ski |-> <<>>, aki |-> <<>>],
      leaf |->
          [subject |-> <<>>, issuer |-> <<>>, san |-> <<>>, permitted |-> <<>>, excluded |-> <<>>, not_after |-> <<>>, key |-> <<>>, ski |-> <<>>, aki |-> <<>>] ]

\* src/limbo/testcases/rfc5280.py:162-169  the certificate calls of critical_aki
critical_aki_kwargs ==
    [ root |->
          [subject |-> <<>>, issuer |-> <<>>, san |-> <<>>, permitted |-> <<>>, excluded |-> <<>>, not_after |-> <<>>, key |-> << <<"generated", "key">> >>, ski |-> <<>>, aki |-> << <<"generated", "key">> >>],
      leaf |->
          [subject |-> <<>>, issuer |-> <<>>, san |-> <<>>, permitted |-> <<>>, excluded |-> <<>>, not_after |-> <<>>, key |-> <<>>, ski |-> <<>>, aki |-> <<>>] ]

\* src/limbo/testcases/rfc5280.py:296-300  the certificate calls of critical_ski
critical_ski_kwargs ==
    [ root |->
          [subject |-> <<>>, issuer |-> <<>>, san |-> <<>>, permitted |-> <<>>, excluded |-> <<>>, not_after |-> <<>>, key |-> <<>>, ski |-> << <<"generated", "key">> >>, aki |-> <<>>],
      leaf |->
          [subject |-> <<>>, issuer |-> <<>>, san |-> <<>>, permitted |-> <<>>, excluded |-> <<>>, not_after |-> <<>>, key |-> <<>>, ski |-> <<>>, aki |-> <<>>] ]

\* src/limbo/testcases/rfc5280.py:349-360  the certificate calls of multiple_chains_expired_intermediate
multiple_chains_expired_intermediate_kwargs ==
    [ root |->
          [subject |-> <<>>, issuer |-> <<>>, san |-> <<>>, permitted |-> <<>>, excluded |-> <<>>, not_after |-> <<>>, key |-> <<>>, ski |-> <<>>, aki |-> <<>>],
      root_two |->
          [subject |-> <<>>, issuer |-> << <<"CN", "x509-limbo-root-2">> >>, san |-> <<>>, permitted |-> <<>>, excluded |-> <<>>, not_after |-> <<>>, key |-> <<>>, ski |-> <<>>, aki |-> <<>>],
      expired_intermediate |->
          [subject |-> << <<"subject of", "root">> >>, issuer |-> <<>>, san |-> <<>>, permitted |-> <<>>, excluded |-> <<>>, not_after |-> << <<1988, 11, 25>> >>, key |-> << <<"key of", "root">> >>, ski |-> << <<"key of", "root">> >>, aki |-> <<>>],
      leaf |->
          [subject |-> <<>>, issuer |-> <<>>, san |-> <<>>, permitted |-> <<>>, excluded |-> <<>>, not_after |-> <<>>, key |-> <<>>, ski |-> <<>>, aki |-> <<>>] ]

\* src/limbo/testcases/rfc5280.py:1129-1147  the certificate calls of ca_nameconstraints_permitted_self_issued
ca_nameconstraints_permitted_self_issued_kwargs ==
    [ root |->
          [subject |-> << <<"CN", "not-example.com">> >>, issuer |-> << <<"CN", "not-example.com">> >>, san |-> << << <<"DNS", "not-example", "com">> >> >>, permitted |-> << <<"DNS", "example", "com">> >>, excluded |-> <<>>, not_after |-> <<>>, key |-> <<>>, ski |-> <<>>, aki |-> <<>>],
      intermediate |->
          [subject |-> << <<"CN", "not-example.com">> >>, issuer |-> << <<"CN", "not-example.com">> >>, san |-> << << <<"DNS", "not-example", "com">> >> >>, permitted |-> <<>>, excluded |-> <<>>, not_after |-> <<>>, key |-> <<>>, ski |-> <<>>, aki |-> <<>>],
      leaf |->
          [subject |-> <<>>, issuer |-> <<>>, san |-> <<>>, permitted |-> <<>>, excluded |-> <<>>, not_after |-> <<>>, key |-> <<>>, ski |-> <<>>, aki |-> <<>>] ]

\* src/limbo/testcases/rfc5280.py:1175-1194  the certificate calls of ca_nameconstraints_excluded_self_issued_leaf
ca_nameconstraints_excluded_self_issued_leaf_kwargs ==
    [ root |->
          [subject |-> <<>>, issuer |-> <<>>, san |-> <<>>, permitted |-> << <<"DNS", "example", "com">> >>, excluded |-> <<>>, not_after |-> <<>>, key |-> <<>>, ski |-> <<>>, aki |-> <<>>],
      intermediate |->
          [subject |-> << <<"CN", "not-example.com">> >>, issuer |-> <<>>, san |-> << << <<"DNS", "not-example", "com">> >> >>, permitted |-> <<>>, excluded |-> <<>>, not_after |-> <<>>, key |-> <<>>, ski |-> <<>>, aki |-> <<>>],
      leaf |->
          [subject |-> << <<"CN", "not-example.com">> >>, issuer |-> << <<"CN", "not-example.com">> >>, san |-> << << <<"DNS", "not-example", "com">> >> >>, permitted |-> <<>>, excluded |-> <<>>, not_after |-> <<>>, key |-> <<>>, ski |-> <<>>, aki |-> <<>>] ]

\* src/limbo/testcases/rfc5280/nc.py:603-621  the certificate calls of permitted_self_issued
permitted_self_issued_kwargs ==
    [ root |->
          [subject |-> << <<"CN", "not-example.com">> >>, issuer |-> << <<"CN", "not-example.com">> >>, san |-> << << <<"DNS", "not-example", "com">> >> >>, permitted |-> << <<"DNS", "example", "com">> >>, excluded |-> <<>>, not_after |-> <<>>, key |-> <<>>, ski |-> <<>>, aki |-> <<>>],
      intermediate |->
          [subject |-> << <<"CN", "not-example.com">> >>, issuer |-> << <<"CN", "not-example.com">> >>, san |-> << << <<"DNS", "not-example", "com">> >> >>, permitted |-> <<>>, excluded |-> <<>>, not_after |-> <<>>, key |-> <<>>, ski |-> <<>>, aki |-> <<>>],
      leaf |->
          [subject |-> <<>>, issuer |-> <<>>, san |-> <<>>, permitted |-> <<>>, excluded |-> <<>>, not_after |-> <<>>, key |-> <<>>, ski |-> <<>>, aki |-> <<>>] ]

\* src/limbo/testcases/rfc5280/nc.py:649-668  the certificate calls of excluded_self_issued_leaf
excluded_self_issued_leaf_kwargs ==
    [ root |->
          [subject |-> <<>>, issuer |-> <<>>, san |-> <<>>, permitted |-> << <<"DNS", "example", "com">> >>, excluded |-> <<>>, not_after |-> <<>>, key |-> <<>>, ski |-> <<>>, aki |-> <<>>],
      intermediate |->
          [subject |-> << <<"CN", "not-example.com">> >>, issuer |-> <<>>, san |-> << << <<"DNS", "not-example", "com">> >> >>, permitted |-> <<>>, excluded |-> <<>>, not_after |-> <<>>, key |-> <<>>, ski |-> <<>>, aki |-> <<>>],
      leaf |->
          [subject |-> << <<"CN", "not-example.com">> >>, issuer |-> << <<"CN", "not-example.com">> >>, san |-> << << <<"DNS", "not-example", "com">> >> >>, permitted |-> <<>>, excluded |-> <<>>, not_after |-> <<>>, key |-> <<>>, ski |-> <<>>, aki |-> <<>>] ]

\* rfc5280.py:1615-1617  validation_time(2023-07-10): the time the corpus pins a
\* validation to; a validator's current time is not before it
PinnedValidationTime == <<2023, 7, 10>>

\* limbo.testcases: the modules whose import registers the corpus
Corpus ==
    rfc5280_module \o rfc5280_nc_module

(***************************************************************************)
(* Bounds of the model.                                                    *)
(***************************************************************************)
\* calls an arbitrary author makes on one builder
MaxCalls == 6

\* producers an arbitrary author registers
MaxProducers == 2

\* testcases one external-corpus adapter registers
MaxAdapterCases == 1

\* testcases of the document `limbo harness` loads
MaxDocLen == 2

VARIABLES
    \* one builder driven by one testcase function
    builder,        \* the Builder instance
    def,            \* the testcase function that drives it
    pos,            \* index of the function's next call
    trace,          \* the calls made on the builder so far
    bpc,            \* "idle" | "running" | "returned" | "raised"
    \* _compile
    cpc,            \* where _compile is
    args,           \* the parsed command line of `limbo compile`
    cache,          \* the online adapter's local cache: "stale" | "fresh"
    registry,       \* testcases.registry: id -> producer, in insertion order
    gather_pos,     \* index of the registry item line 109 invokes next
    all_testcases,  \* the list line 109 builds
    combined,       \* the Limbo document of line 110, in a sequence (empty: none)
    out_file,       \* the file at args.output
    out_before,     \* that file as it was when _compile started
    out_stdout,     \* what was printed to sys.stdout
    log,            \* the calls _compile has made on the adapters, in order
    cerror,         \* the exception that ended _compile ("": none)
    \* _harness
    hpc,            \* where _harness is
    hargs,          \* the parsed command line of `limbo harness`
    out_dir,        \* args.output.parent: "absent" | "present"
    limbo_file,     \* the file at args.limbo
    limbo_json,     \* the local limbo_json
    proc,           \* the external harness process
    results_file,   \* the file at args.output
    results_before, \* that file as it was when _harness started
    stderr_out,     \* what was printed to sys.stderr
    herror          \* the exception that ended _harness ("": none)

bvars == <<builder, def, pos, trace, bpc>>

cvars ==
    <<cpc, args, cache, registry, gather_pos, all_testcases, combined, out_file, out_before,
      out_stdout, log, cerror>>

hvars ==
    <<hpc, hargs, out_dir, limbo_file, limbo_json, proc, results_file, results_before,
      stderr_out, herror>>

vars == <<bvars, cvars, hvars>>

(***************************************************************************)
(* Files and text.  A text is what a file or a pipe holds: nothing written *)
(* yet, content from before the run, or a JSON document in the layout its  *)
(* writer gave it.                                                         *)
(***************************************************************************)
NoText == [fmt |-> "empty", version |-> 0, testcases |-> <<>>]

OldText == [fmt |-> "old", version |-> 0, testcases |-> <<>>]

\* a Certificate as it is serialized: PEM-encoded text
Pem(cert) == <<"-----BEGIN CERTIFICATE-----", cert>>

\* ToJson with validation_time left out of the object
ToJson_no_time(tc) ==
    [id |-> tc.id, validation_kind |-> tc.validation_kind,
     trusted_certs |-> [i \in DOMAIN tc.trusted_certs |-> Pem(tc.trusted_certs[i])],
     untrusted_intermediates |->
         [i \in DOMAIN tc.untrusted_intermediates |-> Pem(tc.untrusted_intermediates[i])],
     peer_certificate |-> Pem(tc.peer_certificate),
     validation_time |-> "null",
     extended_key_usage |-> tc.extended_key_usage, features |-> tc.features,
     conflicts_with |-> tc.conflicts_with, expected_peer_names |-> tc.expected_peer_names,
     expected_result |-> tc.expected_result]

\* a Testcase as a JSON object: certificates as PEM text, an absent optional
\* value as null
ToJson(tc) ==
    [id |-> tc.id, validation_kind |-> tc.validation_kind,
     trusted_certs |-> [i \in DOMAIN tc.trusted_certs |-> Pem(tc.trusted_certs[i])],
     untrusted_intermediates |->
         [i \in DOMAIN tc.untrusted_intermediates |-> Pem(tc.untrusted_intermediates[i])],
     peer_certificate |-> Pem(tc.peer_certificate),
     validation_time |->
         IF tc.validation_time = <<>> THEN "null" ELSE tc.validation_time[1],
     extended_key_usage |-> tc.extended_key_usage, features |-> tc.features,
     conflicts_with |-> tc.conflicts_with, expected_peer_names |-> tc.expected_peer_names,
     expected_result |-> tc.expected_result]

\* the Testcase a JSON object is parsed into
FromJson(o) ==
    [id |-> o.id, validation_kind |-> o.validation_kind,
     trusted_certs |-> [i \in DOMAIN o.trusted_certs |-> o.trusted_certs[i][2]],
     untrusted_intermediates |->
         [i \in DOMAIN o.untrusted_intermediates |-> o.untrusted_intermediates[i][2]],
     peer_certificate |-> o.peer_certificate[2],
     validation_time |->
         IF o.validation_time = "null" THEN <<>> ELSE <<o.validation_time>>,
     extended_key_usage |-> o.extended_key_usage, features |-> o.features,
     conflicts_with |-> o.conflicts_with, expected_peer_names |-> o.expected_peer_names,
     expected_result |-> o.expected_result]

\* Limbo.model_dump_json(indent=2) / Limbo.json(): the document as JSON text
DumpJson(doc, fmt) ==
    [fmt |-> fmt, version |-> doc.version,
     testcases |-> [i \in DOMAIN doc.testcases |-> ToJson(doc.testcases[i])]]

(***************************************************************************)
(* The chain builder (limbo.testcases._core.Builder): a linear state       *)
(* machine INIT -> CONFIGURE -> TERMINAL.  A call that is not legal in the *)
(* builder's phase is a fatal authoring error.                             *)
(***************************************************************************)
CertOps == {"root_ca", "intermediate_ca", "leaf_cert"}

KindOps == {"server_validation", "client_validation"}

ConfigureOps ==
    {"trusted_certs", "untrusted_intermediates", "peer_certificate", "validation_time",
     "extended_key_usage", "features", "conflicts_with", "expected_peer_name",
     "expected_peer_names"}

TerminalOps == {"succeeds", "fails"}

\* the module-qualified name of the authoring function
TestcaseId(ns, name) == <<ns, name>>

NewBuilder(id) ==
    [id |-> id, phase |-> "INIT", certs |-> <<>>, validation_kind |-> "unset",
     trusted_certs |-> <<>>, untrusted_intermediates |-> <<>>, peer_certificate |-> <<>>,
     validation_time |-> <<>>, extended_key_usage |-> <<>>, features |-> <<>>,
     conflicts_with |-> <<>>, expected_peer_names |-> <<>>, expected_result |-> "unset",
     registered |-> <<>>, error |-> ""]

\* the immutable Testcase a builder finalizes into
Testcase(b, result) ==
    [id |-> b.id, validation_kind |-> b.validation_kind, trusted_certs |-> b.trusted_certs,
     untrusted_intermediates |-> b.untrusted_intermediates,
     peer_certificate |-> b.peer_certificate[1], validation_time |-> b.validation_time,
     extended_key_usage |-> b.extended_key_usage, features |-> b.features,
     conflicts_with |-> b.conflicts_with, expected_peer_names |-> b.expected_peer_names,
     expected_result |-> result]

\* a fatal authoring error: the call changes nothing but the error
Reject(b, why) == [b EXCEPT !.error = why]

ValidationKindOf(op) == IF op = "server_validation" THEN "SERVER" ELSE "CLIENT"

ResultOf(op) == IF op = "succeeds" THEN "SUCCESS" ELSE "FAILURE"

BuildCert(b, c) ==
    IF b.phase = "INIT"
    THEN [b EXCEPT !.certs = Append(@, c.ret)]
    ELSE Reject(b, "illegal transition")

\* SelectKind with a second selector accepted: the kind is overwritten
SelectKind_again(b, c) ==
    IF b.phase \in {"INIT", "CONFIGURE"}
    THEN [b EXCEPT !.phase = "CONFIGURE", !.validation_kind = ValidationKindOf(c.op)]
    ELSE Reject(b, "illegal transition")

SelectKind(b, c) ==
    IF b.phase = "INIT"
    THEN [b EXCEPT !.phase = "CONFIGURE", !.validation_kind = ValidationKindOf(c.op)]
    ELSE Reject(b, "illegal transition")

Configure(b, c) ==
    IF b.phase # "CONFIGURE"
    THEN Reject(b, "illegal transition")
    ELSE CASE c.op = "trusted_certs" -> [b EXCEPT !.trusted_certs = @ \o c.args]
           [] c.op = "untrusted_intermediates" ->
                  [b EXCEPT !.untrusted_intermediates = @ \o c.args]
           [] c.op = "peer_certificate" ->
                  IF b.peer_certificate = <<>>
                  THEN [b EXCEPT !.peer_certificate = c.args]
                  ELSE Reject(b, "illegal transition")
           [] c.op = "validation_time" -> [b EXCEPT !.validation_time = c.args]
           [] c.op = "extended_key_usage" -> [b EXCEPT !.extended_key_usage = c.args]
           [] c.op = "features" -> [b EXCEPT !.features = c.args]
           [] c.op = "conflicts_with" -> [b EXCEPT !.conflicts_with = @ \o c.args]
           [] OTHER -> [b EXCEPT !.expected_peer_names = c.args]

Terminal(b, c) ==
    CASE b.phase = "TERMINAL" -> Reject(b, "duplicate terminal call")
      [] b.phase = "INIT" -> Reject(b, "illegal transition")
      [] OTHER ->
             IF b.peer_certificate = <<>>
             THEN Reject(b, "missing peer certificate")
             ELSE [b EXCEPT !.phase = "TERMINAL", !.expected_result = ResultOf(c.op),
                            !.registered = Append(@, Testcase(b, ResultOf(c.op)))]

\* one call on the builder
Call(b, c) ==
    CASE c.op \in CertOps -> BuildCert(b, c)
      [] c.op \in KindOps -> SelectKind(b, c)
      [] c.op \in ConfigureOps -> Configure(b, c)
      [] OTHER -> Terminal(b, c)

\* the testcase function returns: one that made no terminal call is defective
Finish(b) ==
    IF b.phase # "TERMINAL" THEN Reject(b, "missing terminal call") ELSE b

(***************************************************************************)
(* SpecBuilder: one builder, one testcase function.                        *)
(***************************************************************************)
\* the calls an arbitrary author chooses from
AuthoringCalls ==
    { [op |-> "root_ca", ret |-> "root", args |-> <<>>, kw |-> {}],
      [op |-> "leaf_cert", ret |-> "leaf", args |-> <<"root">>, kw |-> {}],
      [op |-> "server_validation", ret |-> "", args |-> <<>>, kw |-> {}],
      [op |-> "client_validation", ret |-> "", args |-> <<>>, kw |-> {}],
      [op |-> "trusted_certs", ret |-> "", args |-> <<"root">>, kw |-> {}],
      [op |-> "trusted_certs", ret |-> "", args |-> <<"leaf", "root">>, kw |-> {}],
      [op |-> "untrusted_intermediates", ret |-> "", args |-> <<"root">>, kw |-> {}],
      [op |-> "peer_certificate", ret |-> "", args |-> <<"leaf">>, kw |-> {}],
      [op |-> "expected_peer_name", ret |-> "", args |-> <<"DNS:example.com">>, kw |-> {}],
      [op |-> "succeeds", ret |-> "", args |-> <<>>, kw |-> {}],
      [op |-> "fails", ret |-> "", args |-> <<>>, kw |-> {}] }

\* the function of an arbitrary author: its calls are chosen as it runs
Author == [ns |-> "author", name |-> "free", body |-> <<>>]

\* the external process before it is started
NoProc == [state |-> "none", stdin |-> NoText, rc |-> 0, stdout |-> "", stderr |-> ""]

\* _harness is not running
IdleHarness ==
    /\ hpc = "idle"
    /\ hargs = [include |-> <<>>, exclude |-> <<>>]
    /\ out_dir = "absent"
    /\ limbo_file = [exists |-> FALSE, text |-> NoText]
    /\ limbo_json = NoText
    /\ proc = NoProc
    /\ results_file = [exists |-> FALSE, text |-> ""]
    /\ results_before = results_file
    /\ stderr_out = <<>>
    /\ herror = ""

\* _compile is not running
IdleCompile ==
    /\ cpc = "idle"
    /\ args = [online |-> FALSE, output |-> "none", force |-> FALSE]
    /\ cache = "stale"
    /\ registry = <<>>
    /\ gather_pos = 1
    /\ all_testcases = <<>>
    /\ combined = <<>>
    /\ out_file = [exists |-> FALSE, text |-> NoText]
    /\ out_before = out_file
    /\ out_stdout = <<>>
    /\ log = <<>>
    /\ cerror = ""

InitBuilder ==
    /\ IdleCompile
    /\ IdleHarness
    /\ def \in {Corpus[i] : i \in DOMAIN Corpus} \cup {Author}
    /\ builder = NewBuilder(TestcaseId(def.ns, def.name))
    /\ pos = 1
    /\ trace = <<>>
    /\ bpc = "running"

\* the calls the function may make next
NextCalls ==
    IF def = Author
    THEN IF Len(trace) < MaxCalls THEN AuthoringCalls ELSE {}
    ELSE IF pos <= Len(def.body) THEN {def.body[pos]} ELSE {}

\* the testcase function makes its next call on the builder
builder_call ==
    /\ bpc = "running"
    /\ \E c \in NextCalls :
          /\ builder' = Call(builder, c)
          /\ trace' = Append(trace, c)
          /\ pos' = pos + 1
          /\ bpc' = IF Call(builder, c).error # "" THEN "raised" ELSE "running"
    /\ UNCHANGED <<def, cvars, hvars>>

\* the testcase function returns
function_return ==
    /\ bpc = "running"
    /\ def = Author \/ pos > Len(def.body)
    /\ builder' = Finish(builder)
    /\ bpc' = IF Finish(builder).error # "" THEN "raised" ELSE "returned"
    /\ UNCHANGED <<def, pos, trace, cvars, hvars>>

NextBuilder ==
    builder_call \/ function_return

SpecBuilder ==
    InitBuilder /\ [][NextBuilder]_vars

(***************************************************************************)
(* Properties of the builder and of the corpus' testcase functions         *)
(* (SpecBuilder).                                                          *)
(***************************************************************************)
Last(s) == s[Len(s)]

\* the indices of the calls of tr whose method is in ops
CallsOf(tr, ops) == {i \in DOMAIN tr : tr[i].op \in ops}

\* the index of the first call of tr whose method is in ops (0: none)
FirstOf(tr, ops) ==
    IF CallsOf(tr, ops) = {} THEN 0
    ELSE CHOOSE i \in CallsOf(tr, ops) : \A j \in CallsOf(tr, ops) : i <= j

\* the arguments of the first n calls of tr to method op, in call order
RECURSIVE ArgsOf(_, _, _)
ArgsOf(tr, op, n) ==
    IF n = 0 THEN <<>>
    ELSE ArgsOf(tr, op, n - 1) \o (IF tr[n].op = op THEN tr[n].args ELSE <<>>)

\* no call of tr is out of place: certificates are built before the kind is
\* selected, the kind is selected at most once and before anything is configured,
\* the peer certificate is set at most once, nothing follows a terminal call
LegalSoFar(tr) ==
    /\ \A i \in CallsOf(tr, KindOps), j \in CallsOf(tr, CertOps) : j < i
    /\ Cardinality(CallsOf(tr, KindOps)) <= 1
    /\ \A i \in CallsOf(tr, ConfigureOps \cup TerminalOps) :
          \E k \in CallsOf(tr, KindOps) : k < i
    /\ Cardinality(CallsOf(tr, {"peer_certificate"})) <= 1
    /\ \A i \in CallsOf(tr, TerminalOps) : i = Len(tr)

\* tr is a whole legal definition
LegalWhole(tr) ==
    /\ LegalSoFar(tr)
    /\ Cardinality(CallsOf(tr, KindOps)) = 1
    /\ Cardinality(CallsOf(tr, {"peer_certificate"})) = 1
    /\ Cardinality(CallsOf(tr, TerminalOps)) = 1

\* C6: every testcase function of rfc5280.py and rfc5280/nc.py makes its calls in
\* the legal order (certificates, then exactly one kind selector, then the
\* configuration with exactly one peer_certificate, then exactly one terminal call,
\* which is the last call), and runs to its end.
C6_LegalCallSequence ==
    def # Author =>
        /\ LegalSoFar(trace)
        /\ bpc # "running" => (trace = def.body /\ LegalWhole(trace) /\ bpc = "returned")

C6_Witness ==
    /\ def.name = "mismatching_signature_algorithm"
    /\ bpc = "returned"
    /\ Len(builder.registered) = 1

\* the call c, made after the calls of tr, is one of the illegal transitions: a
\* second kind selector, or any call after the terminal call
IllegalTransition(tr, c) ==
    \/ c.op \in KindOps /\ CallsOf(tr, KindOps) # {}
    \/ CallsOf(tr, TerminalOps) # {}

\* C7: a second kind selector, and any call made after the terminal call, is
\* rejected with a fatal error: the builder raises, nothing is registered by the
\* call, the Testcase already registered is unchanged, and no call follows.
C7_IllegalTransitionRejected ==
    /\ [][(trace' # trace /\ IllegalTransition(trace, Last(trace')))
            => /\ bpc' = "raised"
               /\ builder'.error # ""
               /\ builder' = [builder EXCEPT !.error = builder'.error]]_bvars
    /\ [][bpc # "raised"]_bvars

C7_Witness ==
    /\ bpc = "raised"
    /\ Len(trace) > 1
    /\ Last(trace).op = "trusted_certs"
    /\ CallsOf(trace, TerminalOps) # {}
    /\ Len(builder.registered) = 1

\* C9: a terminal call registers exactly one Testcase, whose expected_result is
\* SUCCESS after succeeds() and FAILURE after fails(); once assigned,
\* expected_result and the registered Testcase never change.
C9_ExpectedResultOnce ==
    /\ [](/\ Len(builder.registered) <= 1
          /\ (builder.registered = <<>>) = (builder.expected_result = "unset")
          /\ (builder.error = "" /\ CallsOf(trace, TerminalOps) # {})
                => Len(builder.registered) = 1
          /\ builder.registered # <<>> =>
                /\ builder.registered[1].expected_result
                      = ResultOf(trace[FirstOf(trace, TerminalOps)].op)
                /\ builder.expected_result = builder.registered[1].expected_result
          /\ (def.name \in {"permitted_dns_match", "ca_nameconstraints_permitted_dns_match"}
                 /\ bpc = "returned") =>
                builder.registered[1].expected_result = "SUCCESS")
    /\ [][builder.expected_result # "unset" =>
             /\ builder'.expected_result = builder.expected_result
             /\ builder'.registered = builder.registered]_bvars

C9_Witness ==
    /\ def.name = "permitted_dns_match"
    /\ bpc = "returned"
    /\ builder.registered[1].expected_result = "SUCCESS"
    /\ builder.registered[1].expected_peer_names = <<"DNS:example.com">>

\* C10: the registered Testcase records what the builder accumulated: the kind of
\* the selector called, the certificates passed to trusted_certs(...) in call
\* order, and no untrusted intermediates when untrusted_intermediates(...) was
\* never called; leaf_missing_aki registers FAILURE, SERVER, [root], [].
C10_TestcaseRecordsBuilder ==
    /\ builder.registered # <<>> =>
          LET t == builder.registered[1]
              n == FirstOf(trace, TerminalOps)
          IN  /\ t.validation_kind = ValidationKindOf(trace[FirstOf(trace, KindOps)].op)
              /\ t.trusted_certs = ArgsOf(trace, "trusted_certs", n)
              /\ CallsOf(trace, {"untrusted_intermediates"}) = {}
                    => t.untrusted_intermediates = <<>>
              /\ t.peer_certificate = ArgsOf(trace, "peer_certificate", n)[1]
    /\ (def.name = "leaf_missing_aki" /\ bpc = "returned") =>
          /\ Len(builder.registered) = 1
          /\ builder.registered[1].expected_result = "FAILURE"
          /\ builder.registered[1].validation_kind = "SERVER"
          /\ builder.registered[1].trusted_certs = <<"root">>
          /\ builder.registered[1].untrusted_intermediates = <<>>

C10_Witness ==
    /\ def.name = "leaf_missing_aki"
    /\ bpc = "returned"
    /\ builder.registered # <<>>

(***************************************************************************)
(* The trust graph a testcase function builds.  A certificate is built by  *)
(* a root_ca / intermediate_ca / leaf_cert call from its keyword arguments *)
(* and the builder's defaults; a name is a sequence <<kind, part, ...>>    *)
(* (a dNSName's parts are its labels), a date is <<year, month, day>>.     *)
(***************************************************************************)
\* the keyword arguments of the certificate calls of the function d
KwargsOf(d) ==
    CASE d.name = "ee_empty_issuer" -> ee_empty_issuer_kwargs
      [] d.name = "critical_aki" -> critical_aki_kwargs
      [] d.name = "critical_ski" -> critical_ski_kwargs
      [] d.name = "multiple_chains_expired_intermediate"
             -> multiple_chains_expired_intermediate_kwargs
      [] d.name = "ca_nameconstraints_permitted_self_issued"
             -> ca_nameconstraints_permitted_self_issued_kwargs
      [] d.name = "ca_nameconstraints_excluded_self_issued_leaf"
             -> ca_nameconstraints_excluded_self_issued_leaf_kwargs
      [] d.name = "permitted_self_issued" -> permitted_self_issued_kwargs
      [] d.name = "excluded_self_issued_leaf" -> excluded_self_issued_leaf_kwargs

\* the functions KwargsOf knows
Evaluated ==
    {"ee_empty_issuer", "critical_aki", "critical_ski",
     "multiple_chains_expired_intermediate", "ca_nameconstraints_permitted_self_issued",
     "ca_nameconstraints_excluded_self_issued_leaf", "permitted_self_issued",
     "excluded_self_issued_leaf"}

\* the call of tr that built the certificate cert
BuiltBy(tr, cert) == tr[CHOOSE i \in DOMAIN tr : tr[i].op \in CertOps /\ tr[i].ret = cert]

\* the certificate that signed cert ("" for a root)
ParentOf(tr, cert) ==
    IF BuiltBy(tr, cert).args = <<>> THEN "" ELSE BuiltBy(tr, cert).args[1]

\* the builder's default subject, by certificate kind
DefaultSubject(op) ==
    CASE op = "root_ca" -> <<"CN", "x509-limbo-root">>
      [] op = "intermediate_ca" -> <<"CN", "x509-limbo-intermediate">>
      [] OTHER -> <<"CN", "example.com">>

\* the builder's default subjectAltName: a leaf's is the dNSName example.com
DefaultSan(op) ==
    IF op = "leaf_cert" THEN << <<"DNS", "example", "com">> >> ELSE <<>>

\* the subject of cert: the one given (a name, or another certificate's subject)
\* or the default
RECURSIVE SubjectOf(_, _, _)
SubjectOf(tr, kws, cert) ==
    LET given == kws[cert].subject
    IN  IF given = <<>> THEN DefaultSubject(BuiltBy(tr, cert).op)
        ELSE IF given[1][1] = "subject of" THEN SubjectOf(tr, kws, given[1][2])
        ELSE given[1]

\* the issuer of cert: the one given, or the subject of its parent (of the
\* default root for a root)
IssuerOf(tr, kws, cert) ==
    IF kws[cert].issuer # <<>> THEN kws[cert].issuer[1]
    ELSE IF ParentOf(tr, cert) = "" THEN DefaultSubject("root_ca")
    ELSE SubjectOf(tr, kws, ParentOf(tr, cert))

\* the certificate cert as built
CertificateOf(tr, kws, cert) ==
    [name |-> cert,
     subject |-> SubjectOf(tr, kws, cert),
     issuer |-> IssuerOf(tr, kws, cert),
     san |-> IF kws[cert].san = <<>> THEN DefaultSan(BuiltBy(tr, cert).op)
             ELSE kws[cert].san[1],
     permitted |-> kws[cert].permitted,
     excluded |-> kws[cert].excluded,
     not_after |-> kws[cert].not_after]

\* the path from a trust anchor down to cert along the signing certificates
\* (<<>>: cert does not chain to a trust anchor)
RECURSIVE PathTo(_, _, _)
PathTo(tr, trusted, cert) ==
    IF \E i \in DOMAIN trusted : trusted[i] = cert THEN <<cert>>
    ELSE IF ParentOf(tr, cert) = "" THEN <<>>
    ELSE LET up == PathTo(tr, trusted, ParentOf(tr, cert))
         IN  IF up = <<>> THEN <<>> ELSE Append(up, cert)

\* the date a is before the date b
Before(a, b) ==
    \/ a[1] < b[1]
    \/ a[1] = b[1] /\ a[2] < b[2]
    \/ a[1] = b[1] /\ a[2] = b[2] /\ a[3] < b[3]

\* c's validity has ended at the time now (a default validity covers every
\* validation time)
Expired(c, now) == c.not_after # <<>> /\ Before(c.not_after[1], now)

\* a certificate is self-issued when its subject equals its issuer
SelfIssued(c) == c.subject = c.issuer

\* the name n lies in the subtree: same kind, and the subtree's parts end n's
Within(n, subtree) ==
    /\ n[1] = subtree[1]
    /\ Len(n) >= Len(subtree)
    /\ SubSeq(n, Len(n) - Len(subtree) + 2, Len(n)) = Tail(subtree)

\* the names of c are allowed by the name constraints of ca
Satisfies(c, ca) ==
    \A i \in DOMAIN c.san :
        /\ (\E p \in DOMAIN ca.permitted : ca.permitted[p][1] = c.san[i][1])
              => \E p \in DOMAIN ca.permitted : Within(c.san[i], ca.permitted[p])
        /\ ~\E e \in DOMAIN ca.excluded : Within(c.san[i], ca.excluded[e])

\* NameConstraintsHold with self-issued certificates checked like any other
NameConstraintsHold_no_exemption(path) ==
    \A i, j \in DOMAIN path : i < j => Satisfies(path[j], path[i])

\* name-constraint evaluation over a path (trust anchor first): every certificate
\* satisfies the constraints of those above it, a self-issued certificate being
\* exempt unless it is the final one
NameConstraintsHold(path) ==
    \A i, j \in DOMAIN path :
        i < j => \/ SelfIssued(path[j]) /\ j # Len(path)
                 \/ Satisfies(path[j], path[i])

\* the certificates of the path from a trust anchor of the registered Testcase to
\* its peer certificate, as the function running in SpecBuilder built them
ScenarioPath ==
    LET t == builder.registered[1]
        p == PathTo(trace, t.trusted_certs, t.peer_certificate)
    IN  [i \in DOMAIN p |-> CertificateOf(trace, KwargsOf(def), p[i])]

\* the scenarios of the self-issuance exemption
SelfIssuedScenarios ==
    {"ca_nameconstraints_permitted_self_issued", "ca_nameconstraints_excluded_self_issued_leaf",
     "permitted_self_issued", "excluded_self_issued_leaf"}

C17_ChainOfPain ==
    (def.name = "multiple_chains_expired_intermediate" /\ bpc = "returned")
        => LET t == builder.registered[1]
               path == ScenarioPath
               Cert(c) == CertificateOf(trace, KwargsOf(def), c)
               InSeq(c, cs) == \E i \in DOMAIN cs : cs[i] = c
           IN  /\ t.validation_time = <<>>
               /\ Len(t.trusted_certs) = 2
               /\ t.trusted_certs[1] # t.trusted_certs[2]
               /\ \E i \in DOMAIN t.untrusted_intermediates :
                     LET x == t.untrusted_intermediates[i]
                     IN  /\ Expired(Cert(x), PinnedValidationTime)
                         /\ Cert(x).subject = Cert(t.trusted_certs[1]).subject
                         /\ ParentOf(trace, x) = t.trusted_certs[2]
               /\ path # <<>>
               /\ path[1].name = t.trusted_certs[1]
               /\ path[Len(path)].name = t.peer_certificate
               /\ \A i \in DOMAIN path :
                     /\ ~Expired(path[i], PinnedValidationTime)
                     /\ ~InSeq(path[i].name, t.untrusted_intermediates)
               /\ NameConstraintsHold(path)
               /\ Len(t.trusted_certs) + Len(t.untrusted_intermediates) > Len(path) - 1
               /\ t.expected_result = "SUCCESS"

C17_Witness ==
    /\ def.name = "multiple_chains_expired_intermediate"
    /\ bpc = "returned"
    /\ builder.registered[1].expected_result = "SUCCESS"
    /\ builder.registered[1].trusted_certs = <<"root", "root_two">>
    /\ builder.registered[1].untrusted_intermediates = <<"expired_intermediate">>
    /\ Expired(CertificateOf(trace, KwargsOf(def), "expired_intermediate"),
               PinnedValidationTime)

(***************************************************************************)
(* The registry (limbo.testcases.registry) and the producers in it.        *)
(***************************************************************************)
\* a registry entry: a testcase function (body) or a pre-built Testcase
FunctionEntry(d) ==
    [id |-> TestcaseId(d.ns, d.name), body |-> d.body, prebuilt |-> <<>>]

PrebuiltEntry(tc) == [id |-> tc.id, body |-> <<>>, prebuilt |-> <<tc>>]

\* Register with a duplicate id accepted: the new producer takes the earlier one's place
Register_replace(reg, e) ==
    IF \E i \in DOMAIN reg.entries : reg.entries[i].id = e.id
    THEN [reg EXCEPT !.entries =
             [i \in DOMAIN reg.entries |->
                 IF reg.entries[i].id = e.id THEN e ELSE reg.entries[i]]]
    ELSE [reg EXCEPT !.entries = Append(@, e)]

\* register(id, producer): a duplicate id is a fatal construction error
Register(reg, e) ==
    IF \E i \in DOMAIN reg.entries : reg.entries[i].id = e.id
    THEN [reg EXCEPT !.error = "duplicate testcase id"]
    ELSE [reg EXCEPT !.entries = Append(@, e)]

\* the entries lo..hi of es registered in order, stopping at the first error
RECURSIVE RegisterRange(_, _, _, _)
RegisterRange(reg, es, lo, hi) ==
    IF lo > hi \/ reg.error # "" THEN reg
    ELSE IF lo = hi THEN Register(reg, es[lo])
    ELSE LET mid == (lo + hi) \div 2
         IN  RegisterRange(RegisterRange(reg, es, lo, mid), es, mid + 1, hi)

RegisterAll(reg, es) == RegisterRange(reg, es, 1, Len(es))

\* the builder after the first n calls of body, stopping at the first error
RECURSIVE RunCalls(_, _, _)
RunCalls(b, body, n) ==
    IF n = 0 THEN b
    ELSE LET r == RunCalls(b, body, n - 1)
         IN  IF r.error # "" THEN r ELSE Call(r, body[n])

\* a producer invoked: the testcase function run on a fresh builder to its
\* return, or the pre-built Testcase handed over
Invoke(e) ==
    IF e.prebuilt # <<>>
    THEN [error |-> "", testcase |-> e.prebuilt]
    ELSE LET r == RunCalls(NewBuilder(e.id), e.body, Len(e.body))
             b == IF r.error # "" THEN r ELSE Finish(r)
         IN  [error |-> b.error, testcase |-> b.registered]

\* the registry once `from limbo import testcases` has run
ImportTestcases ==
    RegisterAll([entries |-> <<>>, error |-> ""],
                [i \in DOMAIN Corpus |-> FunctionEntry(Corpus[i])])

\* a Testcase an external-corpus adapter holds pre-built
ExternalCase(k) ==
    [id |-> TestcaseId("external", ToString(k)), validation_kind |-> "SERVER",
     trusted_certs |-> <<"root">>, untrusted_intermediates |-> <<>>,
     peer_certificate |-> "leaf", validation_time |-> <<>>,
     extended_key_usage |-> <<>>, features |-> <<>>, conflicts_with |-> <<>>,
     expected_peer_names |-> <<"DNS:example.com">>,
     expected_result |-> IF k % 2 = 1 THEN "SUCCESS" ELSE "FAILURE"]

\* the sequences of at most n elements of S
SeqsUpTo(S, n) == UNION {[1..k -> S] : k \in 0..n}

\* what one adapter's register_testcases() may register
AdapterCases ==
    SeqsUpTo({PrebuiltEntry(ExternalCase(k)) : k \in 1..MaxAdapterCases}, MaxAdapterCases)

(***************************************************************************)
(* _compile (limbo/_cli.py:102-114).                                       *)
(***************************************************************************)
\* _compile ends with an uncaught exception
Abort(why) ==
    /\ cpc' = "aborted"
    /\ cerror' = why

\* compile_online with the refresh left out
compile_online_unrefreshed ==
    /\ cpc = "start"
    /\ cpc' = "bettertls"
    /\ UNCHANGED <<args, cache, registry, gather_pos, all_testcases, combined, out_file,
                   out_before, out_stdout, log, cerror, bvars, hvars>>

\* lines 103-104: if args.online: online.compile()
compile_online ==
    /\ cpc = "start"
    /\ IF args.online
       THEN /\ log' = Append(log, [call |-> "online.compile", entries |-> <<>>])
            /\ \E ok \in BOOLEAN :
                  IF ok
                  THEN cache' = "fresh" /\ cpc' = "bettertls" /\ UNCHANGED cerror
                  ELSE Abort("online refresh failed") /\ UNCHANGED cache
       ELSE cpc' = "bettertls" /\ UNCHANGED <<cache, log, cerror>>
    /\ UNCHANGED <<args, registry, gather_pos, all_testcases, combined, out_file,
                   out_before, out_stdout, bvars, hvars>>

\* an adapter's register_testcases(): it registers the entries es
AdapterRegisters(adapter, es, next) ==
    LET r == RegisterAll([entries |-> registry, error |-> ""], es)
    IN  /\ registry' = r.entries
        /\ log' = Append(log, [call |-> adapter, entries |-> es])
        /\ IF r.error # "" THEN Abort(r.error) ELSE cpc' = next /\ UNCHANGED cerror

\* line 106: bettertls.register_testcases()
compile_bettertls ==
    /\ cpc = "bettertls"
    /\ \E es \in AdapterCases : AdapterRegisters("bettertls.register_testcases", es, "online")
    /\ UNCHANGED <<args, cache, gather_pos, all_testcases, combined, out_file,
                   out_before, out_stdout, bvars, hvars>>

\* compile_online_register run lazily, once the first producer has been invoked
compile_online_register_late ==
    /\ IF cpc = "online"
       THEN cpc' = "gather" /\ UNCHANGED <<registry, log, cerror>>
       ELSE /\ cpc = "gather"
            /\ gather_pos = 2
            /\ Len(log) < 3
            /\ \E es \in AdapterCases :
                  AdapterRegisters("online.register_testcases", es, "gather")
    /\ UNCHANGED <<args, cache, gather_pos, all_testcases, combined, out_file,
                   out_before, out_stdout, bvars, hvars>>

\* line 107: online.register_testcases()
compile_online_register ==
    /\ cpc = "online"
    /\ \E es \in AdapterCases : AdapterRegisters("online.register_testcases", es, "gather")
    /\ UNCHANGED <<args, cache, gather_pos, all_testcases, combined, out_file,
                   out_before, out_stdout, bvars, hvars>>

\* GatherStep with the producer's Testcase added twice
GatherStep_twice(acc, r) ==
    IF r.error # ""
    THEN [error |-> r.error, list |-> acc]
    ELSE [error |-> "", list |-> acc \o r.testcase \o r.testcase]

\* GatherStep with a failing producer caught and skipped
GatherStep_skip(acc, r) ==
    IF r.error # ""
    THEN [error |-> "", list |-> acc]
    ELSE [error |-> "", list |-> acc \o r.testcase]

\* GatherStep with the producer's Testcase put first
GatherStep_prepend(acc, r) ==
    IF r.error # ""
    THEN [error |-> r.error, list |-> acc]
    ELSE [error |-> "", list |-> r.testcase \o acc]

\* line 109, one element of the comprehension: the list so far and the outcome r
\* of invoking the next producer
GatherStep(acc, r) ==
    IF r.error # ""
    THEN [error |-> r.error, list |-> acc]
    ELSE [error |-> "", list |-> acc \o r.testcase]

\* compile_gather with the last registry item left out
compile_gather_stops_early ==
    /\ cpc = "gather"
    /\ IF gather_pos < Len(registry)
       THEN LET g == GatherStep(all_testcases, Invoke(registry[gather_pos]))
            IN  /\ all_testcases' = g.list
                /\ gather_pos' = gather_pos + 1
                /\ IF g.error # "" THEN Abort(g.error) ELSE UNCHANGED <<cpc, cerror>>
       ELSE cpc' = "validate" /\ UNCHANGED <<gather_pos, all_testcases, cerror>>
    /\ UNCHANGED <<args, cache, registry, combined, out_file, out_before, out_stdout,
                   log, bvars, hvars>>

\* line 109: [testcase() for _, testcase in testcases.registry.items()]
compile_gather ==
    /\ cpc = "gather"
    /\ IF gather_pos <= Len(registry)
       THEN LET g == GatherStep(all_testcases, Invoke(registry[gather_pos]))
            IN  /\ all_testcases' = g.list
                /\ gather_pos' = gather_pos + 1
                /\ IF g.error # "" THEN Abort(g.error) ELSE UNCHANGED <<cpc, cerror>>
       ELSE cpc' = "validate" /\ UNCHANGED <<gather_pos, all_testcases, cerror>>
    /\ UNCHANGED <<args, cache, registry, combined, out_file, out_before, out_stdout,
                   log, bvars, hvars>>

\* line 110: combined = Limbo(version=1, testcases=all_testcases)
compile_validate ==
    /\ cpc = "validate"
    /\ \E ok \in BOOLEAN :
          IF ok
          THEN /\ combined' = <<[version |-> 1, testcases |-> all_testcases]>>
               /\ cpc' = "open"
               /\ UNCHANGED cerror
          ELSE Abort("schema validation failed") /\ UNCHANGED combined
    /\ UNCHANGED <<args, cache, registry, gather_pos, all_testcases, out_file,
                   out_before, out_stdout, log, bvars, hvars>>

\* line 112: io = args.output.open(mode="w") if args.output else sys.stdout
compile_open ==
    /\ cpc = "open"
    /\ out_file' = IF args.output = "file" THEN [exists |-> TRUE, text |-> NoText]
                   ELSE out_file
    /\ cpc' = "dump"
    /\ UNCHANGED <<args, cache, registry, gather_pos, all_testcases, combined,
                   out_before, out_stdout, log, cerror, bvars, hvars>>

\* lines 113-114: print(combined.model_dump_json(indent=2), file=io), io closed
compile_dump ==
    /\ cpc = "dump"
    /\ \E ok \in BOOLEAN :
          IF ok
          THEN /\ IF args.output = "file"
                  THEN /\ out_file' = [out_file EXCEPT
                                          !.text = DumpJson(combined[1], "indent2")]
                       /\ UNCHANGED out_stdout
                  ELSE /\ out_stdout' = Append(out_stdout, DumpJson(combined[1], "indent2"))
                       /\ UNCHANGED out_file
               /\ cpc' = "done"
               /\ UNCHANGED cerror
          ELSE Abort("serialization failed") /\ UNCHANGED <<out_file, out_stdout>>
    /\ UNCHANGED <<args, cache, registry, gather_pos, all_testcases, combined,
                   out_before, log, bvars, hvars>>

NextCompile ==
    \/ compile_online
    \/ compile_bettertls
    \/ compile_online_register
    \/ compile_gather
    \/ compile_validate
    \/ compile_open
    \/ compile_dump

\* no builder is being driven step by step
IdleBuilder ==
    /\ builder = NewBuilder(TestcaseId("", ""))
    /\ def = Author
    /\ pos = 1
    /\ trace = <<>>
    /\ bpc = "idle"

\* `limbo compile` starts with the registry reg
InitCompile(reg) ==
    /\ IdleBuilder
    /\ IdleHarness
    /\ cpc = "start"
    /\ args \in [online : BOOLEAN, output : {"none", "file"}, force : BOOLEAN]
    /\ cache = "stale"
    /\ registry = reg
    /\ gather_pos = 1
    /\ all_testcases = <<>>
    /\ combined = <<>>
    /\ out_file \in {[exists |-> FALSE, text |-> NoText], [exists |-> TRUE, text |-> OldText]}
    /\ out_before = out_file
    /\ out_stdout = <<>>
    /\ log = <<>>
    /\ cerror = ""

Init ==
    InitCompile(ImportTestcases.entries)

Spec ==
    Init /\ [][NextCompile]_vars

(***************************************************************************)
(* SpecAuthoring: _compile over testcase functions of arbitrary authors.   *)
(***************************************************************************)
\* the calls of AuthoringCalls by method name
AC(op) == CHOOSE c \in AuthoringCalls : c.op = op /\ Len(c.args) <= 1

\* bodies of small testcase functions, legal and defective
AuthoredBodies ==
    { <<AC("root_ca"), AC("leaf_cert"), AC("server_validation"), AC("trusted_certs"),
        AC("peer_certificate"), AC("expected_peer_name"), AC("succeeds")>>,
      <<AC("root_ca"), AC("leaf_cert"), AC("client_validation"), AC("peer_certificate"),
        AC("fails")>>,
      <<AC("root_ca"), AC("leaf_cert"), AC("server_validation"), AC("trusted_certs"),
        AC("peer_certificate")>>,
      <<AC("root_ca"), AC("server_validation"), AC("trusted_certs"), AC("fails")>>,
      <<AC("root_ca"), AC("leaf_cert"), AC("server_validation"), AC("peer_certificate"),
        AC("fails"), AC("succeeds")>>,
      <<AC("root_ca"), AC("leaf_cert"), AC("server_validation"), AC("client_validation"),
        AC("peer_certificate"), AC("fails")>> }

\* the registry after importing the modules of arbitrary authors
AuthoredRegistries ==
    { [i \in DOMAIN bs |-> FunctionEntry([ns |-> "author", name |-> ToString(i), body |-> bs[i]])] :
        bs \in SeqsUpTo(AuthoredBodies, MaxProducers) }

InitAuthoring ==
    /\ \E reg \in AuthoredRegistries : InitCompile(reg)
    /\ args.force = FALSE
    /\ out_file.exists = FALSE

SpecAuthoring ==
    InitAuthoring /\ [][NextCompile]_vars

(***************************************************************************)
(* Properties of _compile (Spec, SpecAuthoring).                           *)
(***************************************************************************)
\* C3: a compilation that fails fatally leaves the output file as it was: not
\* created, not truncated, not partially written.
C3_NoPartialOutput ==
    cpc = "aborted" => out_file = out_before

\* no two testcases of tcs have the same id
UniqueIds(tcs) == \A i, j \in DOMAIN tcs : tcs[i].id = tcs[j].id => i = j

\* C4: no two testcases of a compiled document (of the list it is built from, of
\* the text written) have the same id, whatever the adapters registered.
C4_UniqueIds ==
    /\ UniqueIds(all_testcases)
    /\ combined # <<>> => UniqueIds(combined[1].testcases)
    /\ UniqueIds(out_file.text.testcases)
    /\ \A i \in DOMAIN out_stdout : UniqueIds(out_stdout[i].testcases)

C4_Witness ==
    /\ cpc = "done"
    /\ args.output = "file"
    /\ Len(out_file.text.testcases) > Len(Corpus)

\* C5: every Testcase whose expected_result is SUCCESS carries an expected peer
\* name.
C5_SuccessHasPeerName ==
    \A i \in DOMAIN all_testcases :
        all_testcases[i].expected_result = "SUCCESS"
            => all_testcases[i].expected_peer_names # <<>>

\* the definition makes no terminal call, makes its terminal call with no peer
\* certificate set, or makes a second terminal call
Defective(body) ==
    \/ CallsOf(body, TerminalOps) = {}
    \/ Cardinality(CallsOf(body, TerminalOps)) >= 2
    \/ \A i \in CallsOf(body, {"peer_certificate"}) : FirstOf(body, TerminalOps) < i

\* C8: a defective testcase definition aborts the compilation when it is invoked:
\* no document is built and nothing is written; the testcases gathered are those
\* of the producers invoked so far, one each, each with its peer certificate.
C8_DefectiveDefinitionAborts ==
    /\ (\E i \in DOMAIN registry :
           /\ i < gather_pos
           /\ registry[i].prebuilt = <<>>
           /\ Defective(registry[i].body))
          => /\ cpc = "aborted"
             /\ cerror \in {"missing terminal call", "missing peer certificate",
                            "duplicate terminal call"}
             /\ combined = <<>>
             /\ out_file = out_before
             /\ out_stdout = <<>>
    /\ cpc # "aborted" =>
          /\ Len(all_testcases) = gather_pos - 1
          /\ \A i \in DOMAIN all_testcases :
                /\ all_testcases[i].id = registry[i].id
                /\ all_testcases[i].peer_certificate \in {"root", "leaf"}

C8_Witness ==
    /\ cpc = "aborted"
    /\ cerror = "duplicate terminal call"
    /\ Len(all_testcases) = 1
    /\ gather_pos = 3

\* C21: --force decides whether an existing output file is overwritten: with
\* --force it holds the compiled document, without --force it is left as it was.
C21_ForceControlsOverwrite ==
    (cpc = "done" /\ args.output = "file" /\ out_before.exists) =>
        IF args.force
        THEN out_file = [exists |-> TRUE, text |-> DumpJson(combined[1], "indent2")]
        ELSE out_file = out_before

\* the ids of the entries (or testcases) es, in order
IdsOf(es) == [i \in DOMAIN es |-> es[i].id]

\* the entries the adapters' register_testcases() calls of l were given, in order
RECURSIVE OfferedBy(_)
OfferedBy(l) ==
    IF l = <<>> THEN <<>> ELSE OfferedBy(SubSeq(l, 1, Len(l) - 1)) \o l[Len(l)].entries

\* every registration of the run, in order: the corpus modules', then the adapters'
Registrations == ImportTestcases.entries \o OfferedBy(log)

\* the first n entries of es hold no id twice
DistinctUpTo(es, n) == UniqueIds(SubSeq(es, 1, n))

\* the documents the finished run has written (to the file or to sys.stdout)
Written ==
    IF cpc # "done" THEN <<>>
    ELSE IF args.output = "file" THEN <<out_file.text>> ELSE out_stdout

\* the calls _compile has made on the adapters, by name
CallsLogged == [i \in DOMAIN log |-> log[i].call]

RegisterCalls == {"bettertls.register_testcases", "online.register_testcases"}

\* C11: a registration under an id the registry already holds is rejected with a
\* fatal error: the registry never holds two entries of one id, it is the
\* registrations made up to the first duplicate (none replaced, none dropped), an
\* entry once in it never changes, and a run in which a duplicate id was registered
\* is aborted with that error.
C11_DuplicateIdRejected ==
    /\ [](/\ UniqueIds(registry)
          /\ Len(registry) <= Len(Registrations)
          /\ registry = SubSeq(Registrations, 1, Len(registry))
          /\ Len(registry) < Len(Registrations)
                => /\ ~DistinctUpTo(Registrations, Len(registry) + 1)
                   /\ cpc = "aborted"
                   /\ cerror = "duplicate testcase id"
          /\ ~UniqueIds(Registrations) => cpc = "aborted" /\ cerror = "duplicate testcase id")
    /\ [][/\ Len(registry') >= Len(registry)
          /\ \A i \in DOMAIN registry : registry'[i] = registry[i]]_cvars

C11_Witness ==
    /\ cpc = "aborted"
    /\ cerror = "duplicate testcase id"
    /\ Len(log) = 2
    /\ log[1].entries = log[2].entries
    /\ Len(registry) = Len(Corpus) + 1

\* C12: compilation invokes every registered producer exactly once, in one pass:
\* the list gathered, the document built from it and the document written hold
\* exactly one Testcase per registry entry (same ids, same length).
C12_OneTestcasePerEntry ==
    /\ cpc # "aborted" => Len(all_testcases) = gather_pos - 1
    /\ gather_pos <= Len(registry) + 1
    /\ cpc \in {"validate", "open", "dump", "done"} =>
          /\ Len(all_testcases) = Len(registry)
          /\ IdsOf(all_testcases) = IdsOf(registry)
    /\ combined # <<>> =>
          /\ Len(combined[1].testcases) = Len(registry)
          /\ IdsOf(combined[1].testcases) = IdsOf(registry)
    /\ cpc = "done" => Len(Written) = 1
    /\ \A k \in DOMAIN Written :
          /\ Len(Written[k].testcases) = Len(registry)
          /\ IdsOf(Written[k].testcases) = IdsOf(registry)

C12_Witness ==
    /\ cpc = "done"
    /\ args.output = "none"
    /\ Len(registry) = Len(Corpus) + 1
    /\ Len(out_stdout) = 1
    /\ Len(out_stdout[1].testcases) = Len(registry)

\* C13: the testcases of a compiled document are in registration order (the
\* corpus modules' functions in definition order, then what bettertls registered,
\* then what online registered); the order is a function of the sequence of
\* registrations alone, so two runs over the same registrations agree.
C13_RegistrationOrder ==
    /\ \A k \in DOMAIN Written :
          IdsOf(Written[k].testcases) =
              [i \in DOMAIN Corpus |-> TestcaseId(Corpus[i].ns, Corpus[i].name)]
                  \o IdsOf(OfferedBy(log))
    /\ cpc # "aborted" =>
          IdsOf(all_testcases) = SubSeq(IdsOf(Registrations), 1, Len(all_testcases))

C13_Witness ==
    /\ cpc = "done"
    /\ args.output = "file"
    /\ log[Len(log)].entries # <<>>
    /\ out_file.text.testcases[1].id = TestcaseId("rfc5280", "ee_empty_issuer")
    /\ out_file.text.testcases[Len(Corpus)].id = TestcaseId("rfc5280::nc", "nc_forbids_othername_noop")
    /\ out_file.text.testcases[Len(Corpus) + 1].id = log[Len(log)].entries[1].id

\* C19: in a run with --online the cache refresh is the first call made and has
\* completed before either adapter registers; without --online no refresh is made;
\* in both, a run that gets to gathering has had bettertls and then online
\* register, once each.
C19_RefreshBeforeRegistration ==
    /\ \A i \in DOMAIN log :
          log[i].call \in RegisterCalls =>
              IF args.online
              THEN cache = "fresh" /\ i > 1 /\ log[1].call = "online.compile"
              ELSE cache = "stale"
    /\ \A i \in DOMAIN log : log[i].call = "online.compile" => args.online /\ i = 1
    /\ (cpc \in {"gather", "validate", "open", "dump", "done"} \/ gather_pos > 1) =>
          CallsLogged = (IF args.online THEN <<"online.compile">> ELSE <<>>)
                           \o <<"bettertls.register_testcases", "online.register_testcases">>

C19_Witness ==
    /\ cpc = "done"
    /\ args.online
    /\ cache = "fresh"
    /\ CallsLogged = <<"online.compile", "bettertls.register_testcases",
                       "online.register_testcases">>

\* C20: every registration precedes the first read of the registry: once the
\* compiler is gathering (and ever after) the registry does not change, and no
\* producer is invoked before both adapters have registered.
C20_NoReaderWriterOverlap ==
    /\ [](gather_pos > 1 =>
             /\ \E i \in DOMAIN log : log[i].call = "bettertls.register_testcases"
             /\ \E i \in DOMAIN log : log[i].call = "online.register_testcases")
    /\ [][(cpc \in {"gather", "validate", "open", "dump", "done"} \/ gather_pos > 1)
             => registry' = registry /\ log' = log]_cvars
    /\ [][gather_pos' # gather_pos =>
             /\ registry' = registry
             /\ gather_pos' = gather_pos + 1
             /\ cpc = "gather"]_cvars

C20_Witness ==
    /\ cpc = "validate"
    /\ ~args.online
    /\ Len(log) = 2
    /\ log[1].entries # <<>>
    /\ gather_pos = Len(registry) + 1
    /\ Len(registry) = Len(Corpus) + 1

(***************************************************************************)
(* _harness (limbo/_cli.py:117-135).  A testcase id and a pattern are      *)
(* sequences of characters; a pattern that is not given (None) is the      *)
(* empty sequence <<>>, one that is given is <<pattern>>.                  *)
(***************************************************************************)
\* fnmatch.fnmatch(name, pat) from pat[i] and name[j] on: `*` matches any run of
\* characters, `?` any one character, any other character itself
RECURSIVE Glob(_, _, _, _)
Glob(pat, i, name, j) ==
    IF i > Len(pat) THEN j > Len(name)
    ELSE IF pat[i] = "*" THEN \E k \in j..(Len(name) + 1) : Glob(pat, i + 1, name, k)
    ELSE /\ j <= Len(name)
         /\ pat[i] = "?" \/ pat[i] = name[j]
         /\ Glob(pat, i + 1, name, j + 1)

FnMatch(name, pat) == Glob(pat, 1, name, 1)

\* `x is not None`
IsNotNone(opt) == opt # <<>>

\* the truth value of an optional string: None and "" are false
Truthy(opt) == opt # <<>> /\ opt[1] # <<>>

\* FilterTestcases with the expected peer names of the kept testcases cleared
FilterTestcases_cleared(tcs, include, exclude) ==
    LET Included(tc) == FnMatch(tc.id, include[1])
        NotExcluded(tc) == ~FnMatch(tc.id, exclude[1])
        kept == IF Truthy(include) THEN SelectSeq(tcs, Included) ELSE tcs
        left == IF Truthy(exclude) THEN SelectSeq(kept, NotExcluded) ELSE kept
    IN  [i \in DOMAIN left |-> [left[i] EXCEPT !.expected_peer_names = <<>>]]

\* FilterTestcases with the include filter dropping the matches
FilterTestcases_inverted(tcs, include, exclude) ==
    LET Included(tc) == ~FnMatch(tc.id, include[1])
        NotExcluded(tc) == ~FnMatch(tc.id, exclude[1])
        kept == IF Truthy(include) THEN SelectSeq(tcs, Included) ELSE tcs
    IN  IF Truthy(exclude) THEN SelectSeq(kept, NotExcluded) ELSE kept

\* lines 123-126: the include filter, then the exclude filter
FilterTestcases(tcs, include, exclude) ==
    LET Included(tc) == FnMatch(tc.id, include[1])
        NotExcluded(tc) == ~FnMatch(tc.id, exclude[1])
        kept == IF Truthy(include) THEN SelectSeq(tcs, Included) ELSE tcs
    IN  IF Truthy(exclude) THEN SelectSeq(kept, NotExcluded) ELSE kept

\* Limbo.model_validate_json(text): the document of a text that is one
ModelValidateJson(text) ==
    IF text.fmt \in {"indent2", "compact"}
    THEN [error |-> "",
          doc |-> [version |-> text.version,
                   testcases |-> [i \in DOMAIN text.testcases |-> FromJson(text.testcases[i])]]]
    ELSE [error |-> "validation error", doc |-> [version |-> 0, testcases |-> <<>>]]

\* _harness ends with an uncaught exception
Crash(why) ==
    /\ hpc' = "crashed"
    /\ herror' = why

\* line 118: args.output.parent.mkdir(exist_ok=True)
harness_mkdir ==
    /\ hpc = "start"
    /\ out_dir' = "present"
    /\ hpc' = "read"
    /\ UNCHANGED <<hargs, limbo_file, limbo_json, proc, results_file, results_before,
                   stderr_out, herror, bvars, cvars>>

\* line 120: limbo_json = args.limbo.read_text()
harness_read ==
    /\ hpc = "read"
    /\ IF limbo_file.exists
       THEN limbo_json' = limbo_file.text /\ hpc' = "filter" /\ UNCHANGED herror
       ELSE Crash("FileNotFoundError") /\ UNCHANGED limbo_json
    /\ UNCHANGED <<hargs, out_dir, limbo_file, proc, results_file, results_before,
                   stderr_out, bvars, cvars>>

\* harness_filter with the loaded document's version written back
harness_filter_keeps_version ==
    /\ hpc = "filter"
    /\ IF IsNotNone(hargs.include) \/ IsNotNone(hargs.exclude)
       THEN LET parsed == ModelValidateJson(limbo_json)
                testcases ==
                    FilterTestcases(parsed.doc.testcases, hargs.include, hargs.exclude)
            IN  IF parsed.error # ""
                THEN Crash(parsed.error) /\ UNCHANGED limbo_json
                ELSE /\ limbo_json' =
                            DumpJson([version |-> parsed.doc.version,
                                      testcases |-> testcases], "compact")
                     /\ hpc' = "run"
                     /\ UNCHANGED herror
       ELSE hpc' = "run" /\ UNCHANGED <<limbo_json, herror>>
    /\ UNCHANGED <<hargs, out_dir, limbo_file, proc, results_file, results_before,
                   stderr_out, bvars, cvars>>

\* lines 121-127: the testcases filtered and the document serialized again
harness_filter ==
    /\ hpc = "filter"
    /\ IF IsNotNone(hargs.include) \/ IsNotNone(hargs.exclude)
       THEN LET parsed == ModelValidateJson(limbo_json)
                testcases ==
                    FilterTestcases(parsed.doc.testcases, hargs.include, hargs.exclude)
            IN  IF parsed.error # ""
                THEN Crash(parsed.error) /\ UNCHANGED limbo_json
                ELSE /\ limbo_json' =
                            DumpJson([version |-> 1, testcases |-> testcases], "compact")
                     /\ hpc' = "run"
                     /\ UNCHANGED herror
       ELSE hpc' = "run" /\ UNCHANGED <<limbo_json, herror>>
    /\ UNCHANGED <<hargs, out_dir, limbo_file, proc, results_file, results_before,
                   stderr_out, bvars, cvars>>

\* harness_run with the limbo file's text piped as it was read
harness_run_raw ==
    /\ hpc = "run"
    /\ \E found \in BOOLEAN :
          IF found
          THEN /\ proc' = [proc EXCEPT !.state = "running", !.stdin = limbo_file.text]
               /\ hpc' = "wait"
               /\ UNCHANGED herror
          ELSE Crash("FileNotFoundError") /\ UNCHANGED proc
    /\ UNCHANGED <<hargs, out_dir, limbo_file, limbo_json, results_file, results_before,
                   stderr_out, bvars, cvars>>

\* lines 130-132: subprocess.run starts [args.harness] and writes limbo_json to
\* its standard input
harness_run ==
    /\ hpc = "run"
    /\ \E found \in BOOLEAN :
          IF found
          THEN /\ proc' = [proc EXCEPT !.state = "running", !.stdin = limbo_json]
               /\ hpc' = "wait"
               /\ UNCHANGED herror
          ELSE Crash("FileNotFoundError") /\ UNCHANGED proc
    /\ UNCHANGED <<hargs, out_dir, limbo_file, limbo_json, results_file, results_before,
                   stderr_out, bvars, cvars>>

\* what the external process may end with
ProcOutcomes ==
    { [rc |-> 0, stdout |-> "results", stderr |-> ""],
      [rc |-> 0, stdout |-> "", stderr |-> "warning"],
      [rc |-> 1, stdout |-> "partial results", stderr |-> "diagnostic"] }

\* the external process exits
proc_exit ==
    /\ proc.state = "running"
    /\ \E o \in ProcOutcomes :
          proc' = [proc EXCEPT !.state = "exited", !.rc = o.rc, !.stdout = o.stdout,
                               !.stderr = o.stderr]
    /\ UNCHANGED <<hpc, hargs, out_dir, limbo_file, limbo_json, results_file,
                   results_before, stderr_out, herror, bvars, cvars>>

\* harness_collect with the exit status not checked
harness_collect_unchecked ==
    /\ hpc = "wait"
    /\ proc.state = "exited"
    /\ results_file' = [exists |-> TRUE, text |-> proc.stdout]
    /\ hpc' = "done"
    /\ UNCHANGED <<hargs, out_dir, limbo_file, limbo_json, proc, results_before,
                   stderr_out, herror, bvars, cvars>>

\* harness_collect giving up on a process that is still running
harness_collect_timeout ==
    /\ hpc = "wait"
    /\ proc.state \in {"running", "exited"}
    /\ IF proc.state = "exited" /\ proc.rc = 0
       THEN /\ results_file' = [exists |-> TRUE, text |-> proc.stdout]
            /\ UNCHANGED stderr_out
       ELSE /\ stderr_out' = Append(stderr_out, proc.stderr)
            /\ UNCHANGED results_file
    /\ hpc' = "done"
    /\ UNCHANGED <<hargs, out_dir, limbo_file, limbo_json, proc, results_before, herror,
                   bvars, cvars>>

\* harness_collect with the process's standard error written as the results
harness_collect_stderr ==
    /\ hpc = "wait"
    /\ proc.state = "exited"
    /\ IF proc.rc = 0
       THEN /\ results_file' = [exists |-> TRUE, text |-> proc.stderr]
            /\ UNCHANGED stderr_out
       ELSE /\ stderr_out' = Append(stderr_out, proc.stderr)
            /\ UNCHANGED results_file
    /\ hpc' = "done"
    /\ UNCHANGED <<hargs, out_dir, limbo_file, limbo_json, proc, results_before, herror,
                   bvars, cvars>>

\* lines 130-135: subprocess.run returns (check=True raises CalledProcessError on a
\* non-zero exit); the results are written, or the error stream is printed
harness_collect ==
    /\ hpc = "wait"
    /\ proc.state = "exited"
    /\ IF proc.rc = 0
       THEN /\ results_file' = [exists |-> TRUE, text |-> proc.stdout]
            /\ UNCHANGED stderr_out
       ELSE /\ stderr_out' = Append(stderr_out, proc.stderr)
            /\ UNCHANGED results_file
    /\ hpc' = "done"
    /\ UNCHANGED <<hargs, out_dir, limbo_file, limbo_json, proc, results_before, herror,
                   bvars, cvars>>

NextHarness ==
    \/ harness_mkdir
    \/ harness_read
    \/ harness_filter
    \/ harness_run
    \/ proc_exit
    \/ harness_collect

\* the testcase ids of the documents `limbo harness` is given
HarnessIds == { <<>>, <<"a">>, <<"a", "b">>, <<"b", "a">> }

\* the testcases of those documents, as the JSON objects the file holds
HarnessTestcases ==
    { ToJson([ExternalCase(1) EXCEPT
                 !.id = i, !.expected_result = IF Len(i) = 1 THEN "SUCCESS" ELSE "FAILURE"]) :
        i \in HarnessIds }

\* the patterns --include and --exclude are given
Patterns ==
    { <<>>, <<"*">>, <<"a", "*">>, <<"?">>, <<"a", "b">>, <<"*", "a">>, <<"?", "b">>,
      <<"b", "*", "a">> }

OptionalPatterns == {<<>>} \cup {<<p>> : p \in Patterns}

\* what the file at args.limbo may hold
LimboTexts ==
    {[fmt |-> "invalid", version |-> 0, testcases |-> <<>>]}
        \cup [fmt : {"indent2"}, version : {1, 2},
              testcases : SeqsUpTo(HarnessTestcases, MaxDocLen)]

InitHarness ==
    /\ IdleBuilder
    /\ IdleCompile
    /\ hpc = "start"
    /\ hargs \in [include : OptionalPatterns, exclude : OptionalPatterns]
    /\ limbo_file \in {[exists |-> FALSE, text |-> NoText]}
                         \cup {[exists |-> TRUE, text |-> t] : t \in LimboTexts}
    /\ limbo_json = NoText
    /\ proc = NoProc
    /\ results_file \in {[exists |-> FALSE, text |-> ""],
                         [exists |-> TRUE, text |-> "old results"]}
    /\ results_before = results_file
    /\ out_dir \in IF results_file.exists THEN {"present"} ELSE {"absent", "present"}
    /\ stderr_out = <<>>
    /\ herror = ""

SpecHarness ==
    InitHarness /\ [][NextHarness]_vars

\* _harness runs on: each of its own steps is taken once it can be; the external
\* process may run forever
SpecHarnessLive ==
    /\ SpecHarness
    /\ WF_vars(harness_mkdir)
    /\ WF_vars(harness_read)
    /\ WF_vars(harness_filter)
    /\ WF_vars(harness_run)
    /\ WF_vars(harness_collect)

(***************************************************************************)
(* Properties of _harness (SpecHarness).                                   *)
(***************************************************************************)
\* the process has been handed a document loaded from a valid limbo file
Handed ==
    /\ proc.state # "none"
    /\ limbo_file.text.fmt # "invalid"

\* C1: the testcases handed to the harness are those of the input document whose
\* id matches the include pattern (when one is given) and does not match the
\* exclude pattern (when one is given), in their original order; their count is
\* that of a linear scan of the unfiltered document.
C1_HarnessFiltering ==
    Handed =>
        LET Keep(tc) ==
                /\ IsNotNone(hargs.include) => FnMatch(tc.id, hargs.include[1])
                /\ IsNotNone(hargs.exclude) => ~FnMatch(tc.id, hargs.exclude[1])
            doc == limbo_file.text.testcases
        IN  /\ proc.stdin.testcases = SelectSeq(doc, Keep)
            /\ Len(proc.stdin.testcases) = Cardinality({i \in DOMAIN doc : Keep(doc[i])})

\* C2: after the external process exits non-zero, the results file stays as it
\* was (not created, not modified), the process's standard error is what the
\* runner prints, and the runner ends normally.
C2_NonZeroExitWritesNothing ==
    (proc.state = "exited" /\ proc.rc # 0) =>
        /\ results_file = results_before
        /\ hpc \in {"wait", "done"}
        /\ herror = ""
        /\ hpc = "done" => stderr_out = <<proc.stderr>>

C2_Witness ==
    /\ hpc = "done"
    /\ proc.rc # 0
    /\ results_before.exists
    /\ results_file.text = "old results"
    /\ stderr_out = <<"diagnostic">>

C14_FilteringIdempotence ==
    (/\ Handed
     /\ IsNotNone(hargs.include)
     /\ ~IsNotNone(hargs.exclude)
     /\ \A i \in DOMAIN limbo_file.text.testcases :
           FnMatch(limbo_file.text.testcases[i].id, hargs.include[1]))
        => /\ ModelValidateJson(proc.stdin).error = ""
           /\ ModelValidateJson(proc.stdin).doc.testcases
                 = ModelValidateJson(limbo_file.text).doc.testcases
           /\ ModelValidateJson(proc.stdin).doc.version = 1
           /\ proc.stdin.fmt = "compact"

C14_Witness ==
    /\ Handed
    /\ hargs.include = <<<<"?", "b">>>>
    /\ hargs.exclude = <<>>
    /\ limbo_file.text.version = 2
    /\ IdsOf(limbo_file.text.testcases) = << <<"a", "b">>, <<"a", "b">> >>
    /\ IdsOf(proc.stdin.testcases) = << <<"a", "b">>, <<"a", "b">> >>

\* C18: when the external process exits with status zero the results file holds
\* exactly the process's standard output, and the file changes only in the step
\* that follows the process's exit.
C18_ZeroExitWritesStdout ==
    /\ []((hpc = "done" /\ proc.rc = 0) =>
             results_file = [exists |-> TRUE, text |-> proc.stdout])
    /\ [][results_file' # results_file =>
             /\ proc.state = "exited"
             /\ proc.rc = 0
             /\ proc' = proc
             /\ results_file'.text = proc.stdout]_hvars

C18_Witness ==
    /\ hpc = "done"
    /\ proc.state = "exited"
    /\ proc.rc = 0
    /\ proc.stdout = "results"
    /\ results_before.text = "old results"
    /\ results_file.text = "results"

\* C23: the text on the process's standard input is the compact re-serialization
\* (version 1) of the testcases the filter kept when an include or an exclude
\* pattern is given, and the limbo file's text as read, valid or not, when neither
\* is; the process is started by the step after the filter step, with the text
\* that step left.
C23_HarnessInput ==
    /\ [](proc.state # "none" =>
             IF IsNotNone(hargs.include) \/ IsNotNone(hargs.exclude)
             THEN /\ ModelValidateJson(limbo_file.text).error = ""
                  /\ proc.stdin =
                        DumpJson([version |-> 1,
                                  testcases |->
                                      FilterTestcases(ModelValidateJson(limbo_file.text).doc.testcases,
                                                      hargs.include, hargs.exclude)],
                                 "compact")
             ELSE proc.stdin = limbo_file.text)
    /\ [][proc'.state # proc.state /\ proc.state = "none" =>
             /\ hpc = "run"
             /\ proc'.stdin = limbo_json
             /\ limbo_json' = limbo_json]_hvars
    /\ [][limbo_json' # limbo_json => hpc \in {"read", "filter"} /\ proc.state = "none"]_hvars

C23_Witness ==
    /\ proc.state = "running"
    /\ hargs = [include |-> <<>>, exclude |-> <<>>]
    /\ limbo_file.text.fmt = "invalid"
    /\ proc.stdin = limbo_file.text

\* C24: a pattern given as the empty string is applied: with include "" only
\* testcases whose id is empty reach the harness, with exclude "" none of them
\* does.
C24_EmptyPatternApplied ==
    Handed =>
        /\ hargs.include = << <<>> >> =>
              \A i \in DOMAIN proc.stdin.testcases : proc.stdin.testcases[i].id = <<>>
        /\ hargs.exclude = << <<>> >> =>
              \A i \in DOMAIN proc.stdin.testcases : proc.stdin.testcases[i].id # <<>>

\* C26: the runner waits for the external process without a timeout: it leaves
\* its wait only once the process has exited, it never ends the process itself,
\* and once the process has exited the run finishes.
C26_BlocksUntilExit ==
    /\ [][hpc = "wait" /\ hpc' # "wait" => proc.state = "exited" /\ hpc' = "done"]_hvars
    /\ [][(proc'.state = "exited" /\ proc.state # "exited") =>
             /\ proc.state = "running"
             /\ hpc = "wait"
             /\ UNCHANGED <<hpc, results_file, stderr_out, herror>>]_hvars
    /\ [](proc.state = "running" => hpc = "wait")
    /\ (proc.state = "exited") ~> (hpc = "done")

C26_Witness ==
    /\ hpc = "done"
    /\ proc.state = "exited"
    /\ proc.rc # 0
    /\ hargs.include # <<>>
    /\ stderr_out # <<>>

(***************************************************************************)
(* SpecCli: main (limbo/_cli.py:86-87) runs the subcommand chosen on the   *)
(* command line, `limbo compile` or `limbo harness`.                       *)
(***************************************************************************)
InitCli ==
    Init \/ InitHarness

NextCli ==
    NextCompile \/ NextHarness

SpecCli ==
    InitCli /\ [][NextCli]_vars

\* the testcases of the sequence tcs are all among those of the sequence from
AllFrom(tcs, from) == \A i \in DOMAIN tcs : \E j \in DOMAIN from : from[j] = tcs[i]

\* C22: no Testcase is changed after its creation: each testcase gathered, put in
\* the compiled document and written is the one its producer returned, and each
\* testcase handed to the harness (filtered or not) is, field for field, a
\* testcase of the loaded document.
C22_TestcasesNotMutated ==
    /\ \A i \in DOMAIN all_testcases :
          /\ <<all_testcases[i]>> = Invoke(registry[i]).testcase
          /\ combined # <<>> => combined[1].testcases[i] = all_testcases[i]
    /\ \A k \in DOMAIN Written :
          /\ Len(Written[k].testcases) = Len(all_testcases)
          /\ \A i \in DOMAIN all_testcases :
                FromJson(Written[k].testcases[i]) = all_testcases[i]
    /\ Handed =>
          /\ AllFrom(proc.stdin.testcases, limbo_file.text.testcases)
          /\ AllFrom(ModelValidateJson(proc.stdin).doc.testcases,
                     ModelValidateJson(limbo_file.text).doc.testcases)

C22_Witness ==
    /\ Handed
    /\ hargs.include = << <<"a", "*">> >>
    /\ Len(limbo_file.text.testcases) = 2
    /\ Len(proc.stdin.testcases) = 1
    /\ proc.stdin.testcases[1] = limbo_file.text.testcases[2]
    /\ proc.stdin.testcases[1].expected_peer_names # <<>>

\* C27: every document the program constructs has version 1: the compiled
\* document (built and written) and the re-serialized document handed to the
\* harness when a pattern is given, whatever version the limbo file declares; a
\* harness input that is not filtered has the version the file declares.
C27_VersionOne ==
    /\ combined # <<>> => combined[1].version = 1
    /\ \A k \in DOMAIN Written : Written[k].version = 1
    /\ Handed =>
          IF IsNotNone(hargs.include) \/ IsNotNone(hargs.exclude)
          THEN proc.stdin.version = 1 /\ ModelValidateJson(proc.stdin).doc.version = 1
          ELSE proc.stdin.version = limbo_file.text.version

C27_Witness ==
    /\ Handed
    /\ hargs.exclude = << <<"*", "a">> >>
    /\ hargs.include = <<>>
    /\ limbo_file.text.version = 2
    /\ proc.stdin.version = 1
    /\ proc.stdin.testcases # <<>>

(***************************************************************************)
(* Properties of the certificates the corpus' functions build and supply   *)
(* (SpecBuilder).                                                          *)
(***************************************************************************)
\* the certificate cert was built by a certificate call of tr
Built(tr, cert) == \E i \in DOMAIN tr : tr[i].op \in CertOps /\ tr[i].ret = cert

\* the certificates the Testcase t hands to the validator besides the peer
Supplied(t) ==
    {t.trusted_certs[i] : i \in DOMAIN t.trusted_certs}
        \cup {t.untrusted_intermediates[i] : i \in DOMAIN t.untrusted_intermediates}

\* C28: for every testcase function of rfc5280.py and rfc5280/nc.py, the
\* certificate that signed the peer certificate (the peer itself when it is a
\* root) is among the arguments of trusted_certs(...) or
\* untrusted_intermediates(...) of the registered Testcase.
C28_IssuerSupplied ==
    (def # Author /\ bpc = "returned" /\ builder.registered # <<>>) =>
        LET t == builder.registered[1]
            peer == t.peer_certificate
        IN  Built(trace, peer) =>
                (IF ParentOf(trace, peer) = "" THEN peer ELSE ParentOf(trace, peer))
                    \in Supplied(t)

\* the empty distinguished name, x509.Name([])
EmptyName == <<>>

\* C25: in ee_empty_issuer the certificate built with the empty issuer name is the
\* EE certificate handed to peer_certificate(...), not the root handed to
\* trusted_certs(...).
C25_EmptyIssuerOnPeer ==
    (def.name = "ee_empty_issuer" /\ bpc = "returned") =>
        LET t == builder.registered[1]
            kws == KwargsOf(def)
            empty == {c \in DOMAIN kws : IssuerOf(trace, kws, c) = EmptyName}
        IN  /\ empty = {t.peer_certificate}
            /\ \A i \in DOMAIN t.trusted_certs : t.trusted_certs[i] \notin empty

\* the key the certificate cert is built with: the one given (a key the function
\* generated, or another certificate's key), or one the builder generates for cert
RECURSIVE KeyOf(_, _)
KeyOf(kws, cert) ==
    LET given == kws[cert].key
    IN  IF given = <<>> THEN <<"generated for", cert>>
        ELSE IF given[1][1] = "key of" THEN KeyOf(kws, given[1][2])
        ELSE given[1]

\* the key a key identifier was derived from
IdentifiedKey(kws, id) ==
    IF id[1] = "key of" THEN KeyOf(kws, id[2]) ELSE id

\* the certificate whose key signs cert (cert itself for a root)
SignerOf(tr, cert) ==
    IF ParentOf(tr, cert) = "" THEN cert ELSE ParentOf(tr, cert)

\* C29: an explicit SubjectKeyIdentifier passed to a certificate call is derived
\* from the key the certificate is built with, and an explicit
\* AuthorityKeyIdentifier from the key of the certificate's issuer.
C29_KeyIdentifiersMatch ==
    (def.name \in Evaluated /\ bpc = "returned") =>
        LET kws == KwargsOf(def)
        IN  \A c \in DOMAIN kws :
                /\ kws[c].ski # <<>> =>
                      IdentifiedKey(kws, kws[c].ski[1]) = KeyOf(kws, c)
                /\ kws[c].aki # <<>> =>
                      IdentifiedKey(kws, kws[c].aki[1]) = KeyOf(kws, SignerOf(trace, c))

(***************************************************************************)
(* The NameConstraints subtrees of the corpus and the feature tag          *)
(* name_constraint_dn (SpecBuilder).                                       *)
(***************************************************************************)
\* src/limbo/testcases/rfc5280.py:640-1359  the kinds of the NameConstraints subtrees of each function
\* (permitted and excluded together; {} for a function that passes none)
rfc5280_name_constraints(name) ==
    CASE name = "ca_nameconstraints_permitted_dns_mismatch" -> {"DNSName"}
      [] name = "ca_nameconstraints_excluded_dns_match" -> {"DNSName"}
      [] name = "ca_nameconstraints_permitted_dns_match" -> {"DNSName"}
      [] name = "ca_nameconstraints_permitted_dns_match_more" -> {"DNSName"}
      [] name = "ca_nameconstraints_excluded_dns_match_second" -> {"DNSName"}
      [] name = "ca_nameconstraints_permitted_ip_mismatch" -> {"IPAddress"}
      [] name = "ca_nameconstraints_excluded_ip_match" -> {"IPAddress"}
      [] name = "ca_nameconstraints_permitted_ip_match" -> {"IPAddress"}
      [] name = "ca_nameconstraints_permitted_dn_mismatch" -> {"DirectoryName"}
      [] name = "ca_nameconstraints_excluded_dn_match" -> {"DirectoryName"}
      [] name = "ca_nameconstraints_permitted_dn_match" -> {"DirectoryName"}
      [] name = "ca_nameconstraints_permitted_dn_match_subject_san_mismatch" -> {"DirectoryName"}
      [] name = "ca_nameconstraints_excluded_dn_match_sub_mismatch" -> {"DirectoryName"}
      [] name = "ca_nameconstraints_permitted_self_issued" -> {"DNSName"}
      [] name = "ca_nameconstraints_excluded_self_issued_leaf" -> {"DNSName"}
      [] name = "ca_nameconstraints_excluded_match_permitted_and_excluded" -> {"DNSName"}
      [] name = "ca_nameconstraints_permitted_different_constraint_type" -> {"IPAddress"}
      [] name = "ca_nameconstraints_excluded_different_constraint_type" -> {"IPAddress"}
      [] name = "ca_nameconstraints_invalid_dnsname" -> {"DNSName"}
      [] name = "ca_nameconstraints_invalid_ipaddress" -> {"IPAddress"}
      [] OTHER -> {}

\* rfc5280_nc_name_constraints with the DirectoryName subtrees left out
rfc5280_nc_name_constraints_without_dn(name) ==
    CASE name = "permitted_dns_mismatch" -> {"DNSName"}
      [] name = "excluded_dns_match" -> {"DNSName"}
      [] name = "permitted_dns_match" -> {"DNSName"}
      [] name = "permitted_dns_match_noncritical" -> {"DNSName"}
      [] name = "permitted_dns_match_more" -> {"DNSName"}
      [] name = "excluded_dns_match_second" -> {"DNSName"}
      [] name = "permitted_ip_mismatch" -> {"IPAddress"}
      [] name = "excluded_ipv4_match" -> {"IPAddress"}
      [] name = "excluded_ipv6_match" -> {"IPAddress"}
      [] name = "permitted_ipv4_match" -> {"IPAddress"}
      [] name = "permitted_ipv6_match" -> {"IPAddress"}
      [] name = "permitted_dn_mismatch" -> {}
      [] name = "excluded_dn_match" -> {}
      [] name = "permitted_dn_match" -> {}
      [] name = "permitted_dn_match_subject_san_mismatch" -> {}
      [] name = "excluded_dn_match_sub_mismatch" -> {}
      [] name = "permitted_self_issued" -> {"DNSName"}
      [] name = "excluded_self_issued_leaf" -> {"DNSName"}
      [] name = "excluded_match_permitted_and_excluded" -> {"DNSName"}
      [] name = "permitted_different_constraint_type" -> {"IPAddress"}
      [] name = "excluded_different_constraint_type" -> {"IPAddress"}
      [] name = "invalid_dnsname_wildcard" -> {"DNSName"}
      [] name = "invalid_dnsname_leading_period" -> {"DNSName"}
      [] name = "invalid_ipv4_address" -> {"IPAddress"}
      [] name = "invalid_ipv6_address" -> {"IPAddress"}
      [] name = "invalid_email_address" -> {"RFC822Name"}
      [] name = "not_allowed_in_ee_noncritical" -> {"DNSName"}
      [] name = "not_allowed_in_ee_critical" -> {"DNSName"}
      [] name = "intermediate_with_san_rejected_by_intermediate_nc" -> {"DNSName"}
      [] name = "intermediate_with_san_rejected_by_root_nc" -> {"DNSName"}
      [] name = "restrictive_permits_in_intermediates_narrows" -> {"DNSName"}
      [] name = "restrictive_permits_in_intermediates_widens" -> {"DNSName"}
      [] name = "nc_permits_invalid_dns_san" -> {"DNSName"}
      [] name = "nc_permits_invalid_ip_san" -> {"IPAddress"}
      [] name = "nc_permits_invalid_email_san" -> {"RFC822Name"}
      [] name = "nc_forbids_alternate_chain_ica" -> {"DNSName"}
      [] name = "nc_forbids_same_chain_ica" -> {"DNSName"}
      [] name = "nc_permits_email_exact" -> {"RFC822Name"}
      [] name = "nc_permits_email_domain" -> {"RFC822Name"}
      [] name = "nc_forbids_othername" -> {"DNSName", "OtherName"}
      [] name = "nc_forbids_othername_noop" -> {"DNSName", "OtherName"}
      [] OTHER -> {}

\* src/limbo/testcases/rfc5280/nc.py:16-1720  the kinds of the NameConstraints subtrees of each function
\* (permitted and excluded together; {} for a function that passes none)
rfc5280_nc_name_constraints(name) ==
    CASE name = "permitted_dns_mismatch" -> {"DNSName"}
      [] name = "excluded_dns_match" -> {"DNSName"}
      [] name = "permitted_dns_match" -> {"DNSName"}
      [] name = "permitted_dns_match_noncritical" -> {"DNSName"}
      [] name = "permitted_dns_match_more" -> {"DNSName"}
      [] name = "excluded_dns_match_second" -> {"DNSName"}
      [] name = "permitted_ip_mismatch" -> {"IPAddress"}
      [] name = "excluded_ipv4_match" -> {"IPAddress"}
      [] name = "excluded_ipv6_match" -> {"IPAddress"}
      [] name = "permitted_ipv4_match" -> {"IPAddress"}
      [] name = "permitted_ipv6_match" -> {"IPAddress"}
      [] name = "permitted_dn_mismatch" -> {"DirectoryName"}
      [] name = "excluded_dn_match" -> {"DirectoryName"}
      [] name = "permitted_dn_match" -> {"DirectoryName"}
      [] name = "permitted_dn_match_subject_san_mismatch" -> {"DirectoryName"}
      [] name = "excluded_dn_match_sub_mismatch" -> {"DirectoryName"}
      [] name = "permitted_self_issued" -> {"DNSName"}
      [] name = "excluded_self_issued_leaf" -> {"DNSName"}
      [] name = "excluded_match_permitted_and_excluded" -> {"DNSName"}
      [] name = "permitted_different_constraint_type" -> {"IPAddress"}
      [] name = "excluded_different_constraint_type" -> {"IPAddress"}
      [] name = "invalid_dnsname_wildcard" -> {"DNSName"}
      [] name = "invalid_dnsname_leading_period" -> {"DNSName"}
      [] name = "invalid_ipv4_address" -> {"IPAddress"}
      [] name = "invalid_ipv6_address" -> {"IPAddress"}
      [] name = "invalid_email_address" -> {"RFC822Name"}
      [] name = "not_allowed_in_ee_noncritical" -> {"DNSName"}
      [] name = "not_allowed_in_ee_critical" -> {"DNSName"}
      [] name = "intermediate_with_san_rejected_by_intermediate_nc" -> {"DNSName"}
      [] name = "intermediate_with_san_rejected_by_root_nc" -> {"DNSName"}
      [] name = "restrictive_permits_in_intermediates_narrows" -> {"DNSName"}
      [] name = "restrictive_permits_in_intermediates_widens" -> {"DNSName"}
      [] name = "nc_permits_invalid_dns_san" -> {"DNSName"}
      [] name = "nc_permits_invalid_ip_san" -> {"IPAddress"}
      [] name = "nc_permits_invalid_email_san" -> {"RFC822Name"}
      [] name = "nc_forbids_alternate_chain_ica" -> {"DNSName"}
      [] name = "nc_forbids_same_chain_ica" -> {"DNSName"}
      [] name = "nc_permits_email_exact" -> {"RFC822Name"}
      [] name = "nc_permits_email_domain" -> {"RFC822Name"}
      [] name = "nc_forbids_othername" -> {"DNSName", "OtherName"}
      [] name = "nc_forbids_othername_noop" -> {"DNSName", "OtherName"}
      [] OTHER -> {}

\* the kinds of the NameConstraints subtrees of the function d
NameConstraintKinds(d) ==
    IF d.ns = "rfc5280" THEN rfc5280_name_constraints(d.name)
    ELSE rfc5280_nc_name_constraints(d.name)

\* the features the Testcase t is tagged with
FeaturesOf(t) == {t.features[i] : i \in DOMAIN t.features}

\* C30: a testcase of the corpus carries the feature name_constraint_dn exactly
\* when a NameConstraints extension in it holds a DirectoryName subtree.
C30_DnFeatureExact ==
    (def # Author /\ bpc = "returned" /\ builder.registered # <<>>) =>
        ("name_constraint_dn" \in FeaturesOf(builder.registered[1])
            <=> "DirectoryName" \in NameConstraintKinds(def))

C30_Witness ==
    /\ def.ns = "rfc5280::nc"
    /\ def.name = "excluded_dn_match"
    /\ bpc = "returned"
    /\ "DirectoryName" \in NameConstraintKinds(def)
    /\ "name_constraint_dn" \in FeaturesOf(builder.registered[1])

====
